---------------------------- MODULE Spec2Model ----------------------------
(***************************************************************************)
(* Interactive-StorygenAI: the agent pipeline (OrchestratorAgent,          *)
(* POST /api/chat, QueryAgent, SmartRagAgent, GenerationAgent,             *)
(* ProofreaderAgent) as a state machine.  Texts are strings, handled       *)
(* character by character as the JavaScript code handles them.             *)
(***************************************************************************)
EXTENDS Integers, Sequences, FiniteSets, TLC

(***************************************************************************)
(* Bounds of the model.                                                    *)
(***************************************************************************)
\* stored turns after which no further request is started
MaxTurns == 4
\* size of the generated large corpora of the retrieval specification
BigCorpusSize == 120

(***************************************************************************)
(* String helpers: String.prototype.trim, startsWith, includes,            *)
(* toLowerCase, split(/\s+/), as the sources use them.                     *)
(***************************************************************************)
Min(a, b) == IF a < b THEN a ELSE b

CharAt(s, i) == SubSeq(s, i, i)

IsSpace(c) == c \in {" ", "\n", "\t", "\r"}

RECURSIVE TrimStart(_)
TrimStart(s) ==
  IF Len(s) > 0 /\ IsSpace(CharAt(s, 1)) THEN TrimStart(SubSeq(s, 2, Len(s))) ELSE s

RECURSIVE TrimEnd(_)
TrimEnd(s) ==
  IF Len(s) > 0 /\ IsSpace(CharAt(s, Len(s)))
  THEN TrimEnd(SubSeq(s, 1, Len(s) - 1)) ELSE s

Trim(s) == TrimEnd(TrimStart(s))

StartsWith(s, p) == Len(s) >= Len(p) /\ SubSeq(s, 1, Len(p)) = p

Includes(s, k) ==
  \E i \in 1..(Len(s) - Len(k) + 1) : SubSeq(s, i, i + Len(k) - 1) = k

UpperChars == "ABCDEFGHIJKLMNOPQRSTUVWXYZ"
LowerChars == "abcdefghijklmnopqrstuvwxyz"
DigitChars == "0123456789_"

LowerTable == [i \in 1..26 |-> CharAt(LowerChars, i)]
UpperSet == {CharAt(UpperChars, i) : i \in 1..26}
WordCharSet ==
  UpperSet \cup {CharAt(LowerChars, i) : i \in 1..26}
           \cup {CharAt(DigitChars, i) : i \in 1..11}

LowerOf(c) ==
  IF c \in UpperSet
  THEN LowerTable[CHOOSE i \in 1..26 : CharAt(UpperChars, i) = c]
  ELSE c

\* character by character, the string split in halves
RECURSIVE ToLowerCase(_)
ToLowerCase(s) ==
  IF Len(s) = 0 THEN s
  ELSE IF Len(s) = 1 THEN LowerOf(s)
  ELSE ToLowerCase(SubSeq(s, 1, Len(s) \div 2))
       \o ToLowerCase(SubSeq(s, Len(s) \div 2 + 1, Len(s)))

\* the class \w of a regular expression
IsWordChar(c) == c \in WordCharSet

\* replace(/[^\w\s]/g, ' ')
RECURSIVE ReplacePunct(_)
ReplacePunct(s) ==
  IF Len(s) = 0 THEN s
  ELSE IF Len(s) = 1 THEN (IF IsWordChar(s) \/ IsSpace(s) THEN s ELSE " ")
  ELSE ReplacePunct(SubSeq(s, 1, Len(s) \div 2))
       \o ReplacePunct(SubSeq(s, Len(s) \div 2 + 1, Len(s)))

\* split(/\s+/): the pieces between maximal runs of whitespace, the empty
\* leading and trailing pieces included
RECURSIVE SplitWs(_, _, _, _)
SplitWs(s, cur, acc, inWs) ==
  IF Len(s) = 0 THEN Append(acc, cur)
  ELSE IF IsSpace(CharAt(s, 1))
       THEN IF inWs THEN SplitWs(SubSeq(s, 2, Len(s)), cur, acc, TRUE)
            ELSE SplitWs(SubSeq(s, 2, Len(s)), "", Append(acc, cur), TRUE)
       ELSE SplitWs(SubSeq(s, 2, Len(s)), cur \o CharAt(s, 1), acc, FALSE)

\* [...new Set(words)]: first occurrences, in order
RECURSIVE Unique(_, _)
Unique(words, acc) ==
  IF Len(words) = 0 THEN acc
  ELSE Unique(Tail(words),
              IF \E i \in 1..Len(acc) : acc[i] = Head(words) THEN acc
              ELSE Append(acc, Head(words)))

\* Array.prototype.sort((a, b) => a.content.length - b.content.length): a
\* stable sort; an element's place is the number of elements that go before it
SortByLength(seq) ==
  LET n == Len(seq)
      place == [i \in 1..n |->
                  Cardinality({j \in 1..n :
                     \/ Len(seq[j].content) < Len(seq[i].content)
                     \/ Len(seq[j].content) = Len(seq[i].content) /\ j < i}) + 1]
  IN  [k \in 1..n |-> seq[CHOOSE i \in 1..n : place[i] = k]]

\* Array.prototype.slice(0, n)
Slice(seq, n) == SubSeq(seq, 1, Min(n, Len(seq)))

\* Array.prototype.slice(-n)
SliceLast(seq, n) == SubSeq(seq, Len(seq) - Min(n, Len(seq)) + 1, Len(seq))

(***************************************************************************)
(* Program constants.                                                      *)
(***************************************************************************)
\* keywordLimit for fewer than FewKeywords keywords, and otherwise
FewKeywords == 5
KeywordLimitFew == 15
KeywordLimitMany == 10
\* relevantMessages.slice(0, 15)
SemanticLimit == 15
\* combinedResults.slice(0, 100)
FinalLimit == 100
\* null / undefined: a turn without location, a verdict without feedback
Null == "<null>"

(***************************************************************************)
(* MemoryAgent: embeddings and cosine similarity.  An embedding call       *)
(* returns [ok |-> TRUE, values |-> v] or fails, [ok |-> FALSE].           *)
(***************************************************************************)
EmbedFailure == [ok |-> FALSE, values |-> <<>>]
Embedded(v) == [ok |-> TRUE, values |-> v]

RECURSIVE Dot(_, _)
Dot(vecA, vecB) ==
  IF Len(vecA) = 0 THEN 0
  ELSE Head(vecA) * Head(vecB) + Dot(Tail(vecA), Tail(vecB))

(***************************************************************************)
(* cosineSimilarity in the arithmetic the code runs in: IEEE 754 binary64, *)
(* round to nearest even, for vectors of small integers (their             *)
(* products and sums are exact).  A natural number is held as LimbCount    *)
(* limbs of LimbBits bits, least significant first; a number of the        *)
(* arithmetic is sign * m * 2^e with a significand m of MantissaBits bits. *)
(***************************************************************************)
MantissaBits == 53
LimbBits == 14
LimbBase == 2 ^ LimbBits
LimbCount == 8
HalfLimbs == LimbCount \div 2

\* the limbs of a number whose limb k is limb(k)
BigOfLimbs(limb(_)) ==
  <<limb(1), limb(2), limb(3), limb(4), limb(5), limb(6), limb(7), limb(8)>>

BigZero == <<0, 0, 0, 0, 0, 0, 0, 0>>

\* a natural number under 2^31
BigOfInt(n) ==
  <<n % LimbBase, (n \div LimbBase) % LimbBase, n \div (LimbBase * LimbBase),
    0, 0, 0, 0, 0>>

Limb(a, k) == IF k \in 1..LimbCount THEN a[k] ELSE 0

RECURSIVE BigCarry(_, _, _)
BigCarry(raw, k, carry) ==
  IF k > LimbCount THEN <<>>
  ELSE <<(raw[k] + carry) % LimbBase>>
       \o BigCarry(raw, k + 1, (raw[k] + carry) \div LimbBase)

\* a * b for a, b under 2^56
BigMul(a, b) ==
  LET term(k, i) == IF (k + 1 - i) \in 1..HalfLimbs THEN a[i] * b[k + 1 - i] ELSE 0
      sum(k) == term(k, 1) + term(k, 2) + term(k, 3) + term(k, 4)
  IN  BigCarry(BigOfLimbs(sum), 1, 0)

BigInc(a) == BigCarry([a EXCEPT ![1] = @ + 1], 1, 0)

BigLeq(a, b) ==
  LET differ == {k \in 1..LimbCount : a[k] # b[k]}
  IN  differ = {} \/ LET top == CHOOSE k \in differ : \A j \in differ : j <= k
                     IN  a[top] < b[top]

BigBitLen(a) ==
  IF a = BigZero THEN 0
  ELSE LET used == {k \in 1..LimbCount : a[k] # 0}
           top == CHOOSE k \in used : \A j \in used : j <= k
       IN  LimbBits * (top - 1)
           + (CHOOSE n \in 1..LimbBits : 2 ^ (n - 1) <= a[top] /\ a[top] < 2 ^ n)

\* floor(a / 2^s)
BigShr(a, s) ==
  LET q == s \div LimbBits
      r == s % LimbBits
      limb(k) == (Limb(a, k + q) \div 2 ^ r)
                 + (Limb(a, k + q + 1) % 2 ^ r) * 2 ^ (LimbBits - r)
  IN  BigOfLimbs(limb)

\* a * 2^s, for a result under 2^112
BigShl(a, s) ==
  LET q == s \div LimbBits
      r == s % LimbBits
      limb(k) == (Limb(a, k - q) % 2 ^ (LimbBits - r)) * 2 ^ r
                 + (Limb(a, k - q - 1) \div 2 ^ (LimbBits - r))
  IN  BigOfLimbs(limb)

BigBitAt(a, i) == (a[(i \div LimbBits) + 1] \div 2 ^ (i % LimbBits)) % 2

\* a + 2^i for an a whose bit i is 0
BigSetBit(a, i) == [a EXCEPT ![(i \div LimbBits) + 1] = @ + 2 ^ (i % LimbBits)]

\* r with the bits from bit downwards set where the square stays within x:
\* from r = 0, the largest r with r * r <= x
RECURSIVE SqrtBits(_, _, _)
SqrtBits(x, r, bit) ==
  IF bit < 0 THEN r
  ELSE IF BigLeq(BigMul(BigSetBit(r, bit), BigSetBit(r, bit)), x)
  THEN SqrtBits(x, BigSetBit(r, bit), bit - 1)
  ELSE SqrtBits(x, r, bit - 1)

\* q with the bits from bit downwards set where q * d stays within x: from
\* q = 0, the largest q with q * d <= x
RECURSIVE DivBits(_, _, _, _)
DivBits(x, d, q, bit) ==
  IF bit < 0 THEN q
  ELSE IF BigLeq(BigMul(BigSetBit(q, bit), d), x)
  THEN DivBits(x, d, BigSetBit(q, bit), bit - 1)
  ELSE DivBits(x, d, q, bit - 1)

\* x (more than MantissaBits bits, inexact already if sticky) to the nearest
\* significand, ties to even: x is about m * 2^shift
RoundBig(x, sticky) ==
  LET drop == BigBitLen(x) - MantissaBits
      kept == BigShr(x, drop)
      half == BigBitAt(x, drop - 1) = 1
      rest == sticky \/ BigShl(BigShr(x, drop - 1), drop - 1) # x
      up == half /\ (rest \/ kept[1] % 2 = 1)
      m == IF up THEN BigInc(kept) ELSE kept
  IN  IF BigBitLen(m) > MantissaBits
      THEN [m |-> BigShr(m, 1), shift |-> drop + 1]
      ELSE [m |-> m, shift |-> drop]

FloatZero == [sign |-> 0, m |-> BigZero, e |-> 0]
FloatOne == [sign |-> 1, m |-> BigShl(BigOfInt(1), MantissaBits - 1),
             e |-> 1 - MantissaBits]
\* the literal 0.1: 7205759403792794 * 2^-56
SimilarityThreshold ==
  [sign |-> 1, m |-> <<6554, 9830, 6553, 1638, 0, 0, 0, 0>>, e |-> -56]

\* Math.sqrt(n) for a natural number n
FloatSqrt(n) ==
  IF n = 0 THEN FloatZero
  ELSE LET bits == BigBitLen(BigOfInt(n))
           target == 2 * MantissaBits + 2
           up == IF (target - bits) % 2 = 0 THEN target - bits ELSE target - 1 - bits
           x == BigShl(BigOfInt(n), up)
           r == SqrtBits(x, BigZero, MantissaBits)
           rounded == RoundBig(r, BigMul(r, r) # x)
       IN  [sign |-> 1, m |-> rounded.m, e |-> rounded.shift - (up \div 2)]

\* f * g
FloatMul(f, g) ==
  IF f.sign = 0 \/ g.sign = 0 THEN FloatZero
  ELSE LET rounded == RoundBig(BigMul(f.m, g.m), FALSE)
       IN  [sign |-> f.sign * g.sign, m |-> rounded.m,
            e |-> f.e + g.e + rounded.shift]

\* n / g for an integer n and g # 0
FloatDivInt(n, g) ==
  IF n = 0 THEN FloatZero
  ELSE LET abs == IF n < 0 THEN -n ELSE n
           up == 2 * MantissaBits + 1 - BigBitLen(BigOfInt(abs))
           x == BigShl(BigOfInt(abs), up)
           q == DivBits(x, g.m, BigZero, MantissaBits + 1)
           rounded == RoundBig(q, BigMul(q, g.m) # x)
       IN  [sign |-> (IF n < 0 THEN -1 ELSE 1) * g.sign, m |-> rounded.m,
            e |-> rounded.shift - up - g.e]

\* f > g
FloatGreater(f, g) ==
  LET magnitudeGreater(a, b) ==
        a.e > b.e \/ (a.e = b.e /\ a.m # b.m /\ BigLeq(b.m, a.m))
  IN  CASE f.sign > g.sign -> TRUE
        [] f.sign < g.sign -> FALSE
        [] f.sign = 0 -> FALSE
        [] f.sign = 1 -> magnitudeGreater(f, g)
        [] OTHER -> magnitudeGreater(g, f)

\* NaN: no sign, and an exponent that no number has
FloatNaN == [sign |-> 0, m |-> BigZero, e |-> 1]

\* a cosineSimilarity without the test for a zero magnitude: x / 0 is NaN here
CosineSimilarityNoGuard(vecA, vecB) ==
  LET magnitudeA == FloatSqrt(Dot(vecA, vecA))
      magnitudeB == FloatSqrt(Dot(vecB, vecB))
  IN  IF magnitudeA = FloatZero \/ magnitudeB = FloatZero
      THEN FloatNaN
      ELSE FloatDivInt(Dot(vecA, vecB), FloatMul(magnitudeA, magnitudeB))

CosineSimilarity(vecA, vecB) ==
  LET dotProduct == Dot(vecA, vecB)
      magnitudeA == FloatSqrt(Dot(vecA, vecA))
      magnitudeB == FloatSqrt(Dot(vecB, vecB))
  IN  IF magnitudeA = FloatZero \/ magnitudeB = FloatZero
      THEN FloatZero
      ELSE FloatDivInt(dotProduct, FloatMul(magnitudeA, magnitudeB))

\* the vectors the embedding provider answers with
QueryVector == <<1, 1, 0>>
SimilarityVectors ==
  { <<0, 0, 0>>, QueryVector, <<1, 0, 0>>, <<2, 2, 1>>, <<1, 0, 7>>, <<-1, -1, 0>>,
    <<3, 3, 0>>, <<-2, 0, 1>>, <<2, 3, 0>>, <<3, 4, 0>>, <<1, 2, 3>>, <<2, 1, 0>> }

\* the query vectors of the retrieval and pipeline specifications
QueryVectors == {QueryVector, <<0, 0, 0>>}
\* vectors of four values, compared with <<1, 0, 0, 0>>
FourValueVectors == {<<1, 9, 3, 3>>, <<1, 9, 3, 2>>, <<1, 0, 0, 0>>, <<0, 0, 0, 0>>}

\* cosineSimilarity of each query vector and each of these vectors, as
\* CosineSimilarity computes it (SimilarityTableComputed), written out
SimilarityTable ==
  { <<<<1, 1, 0>>, <<3, 4, 0>>,
      [sign |-> 1, m |-> <<11601, 15867, 6824, 2027, 0, 0, 0, 0>>, e |-> -53]>>,
    <<<<1, 1, 0>>, <<3, 3, 0>>,
      [sign |-> 1, m |-> <<0, 0, 0, 1024, 0, 0, 0, 0>>, e |-> -52]>>,
    <<<<1, 1, 0>>, <<2, 3, 0>>,
      [sign |-> 1, m |-> <<5025, 9879, 3755, 2008, 0, 0, 0, 0>>, e |-> -53]>>,
    <<<<1, 1, 0>>, <<2, 2, 1>>,
      [sign |-> 1, m |-> <<14949, 14331, 14301, 1930, 0, 0, 0, 0>>, e |-> -53]>>,
    <<<<1, 1, 0>>, <<2, 1, 0>>,
      [sign |-> 1, m |-> <<11670, 3505, 14801, 1942, 0, 0, 0, 0>>, e |-> -53]>>,
    <<<<1, 1, 0>>, <<1, 2, 3>>,
      [sign |-> 1, m |-> <<14829, 13303, 1750, 1161, 0, 0, 0, 0>>, e |-> -53]>>,
    <<<<1, 1, 0>>, <<1, 1, 0>>,
      [sign |-> 1, m |-> <<16382, 16383, 16383, 2047, 0, 0, 0, 0>>, e |-> -53]>>,
    <<<<1, 1, 0>>, <<1, 0, 7>>,
      [sign |-> 1, m |-> <<6552, 9830, 6553, 1638, 0, 0, 0, 0>>, e |-> -56]>>,
    <<<<1, 1, 0>>, <<1, 0, 0>>,
      [sign |-> 1, m |-> <<15308, 6652, 2534, 1448, 0, 0, 0, 0>>, e |-> -53]>>,
    <<<<1, 1, 0>>, <<0, 0, 0>>,
      [sign |-> 0, m |-> <<0, 0, 0, 0, 0, 0, 0, 0>>, e |-> 0]>>,
    <<<<1, 1, 0>>, <<-1, -1, 0>>,
      [sign |-> -1, m |-> <<16382, 16383, 16383, 2047, 0, 0, 0, 0>>, e |-> -53]>>,
    <<<<1, 1, 0>>, <<-2, 0, 1>>,
      [sign |-> -1, m |-> <<2319, 2337, 4406, 1295, 0, 0, 0, 0>>, e |-> -53]>>,
    <<<<1, 0, 0, 0>>, <<1, 9, 3, 3>>,
      [sign |-> 1, m |-> <<6554, 9830, 6553, 1638, 0, 0, 0, 0>>, e |-> -56]>>,
    <<<<1, 0, 0, 0>>, <<1, 9, 3, 2>>,
      [sign |-> 1, m |-> <<10393, 11121, 15776, 1680, 0, 0, 0, 0>>, e |-> -56]>>,
    <<<<1, 0, 0, 0>>, <<1, 0, 0, 0>>,
      [sign |-> 1, m |-> <<0, 0, 0, 1024, 0, 0, 0, 0>>, e |-> -52]>>,
    <<<<1, 0, 0, 0>>, <<0, 0, 0, 0>>,
      [sign |-> 0, m |-> <<0, 0, 0, 0, 0, 0, 0, 0>>, e |-> 0]>>,
    <<<<0, 0, 0>>, <<3, 4, 0>>,
      [sign |-> 0, m |-> <<0, 0, 0, 0, 0, 0, 0, 0>>, e |-> 0]>>,
    <<<<0, 0, 0>>, <<3, 3, 0>>,
      [sign |-> 0, m |-> <<0, 0, 0, 0, 0, 0, 0, 0>>, e |-> 0]>>,
    <<<<0, 0, 0>>, <<2, 3, 0>>,
      [sign |-> 0, m |-> <<0, 0, 0, 0, 0, 0, 0, 0>>, e |-> 0]>>,
    <<<<0, 0, 0>>, <<2, 2, 1>>,
      [sign |-> 0, m |-> <<0, 0, 0, 0, 0, 0, 0, 0>>, e |-> 0]>>,
    <<<<0, 0, 0>>, <<2, 1, 0>>,
      [sign |-> 0, m |-> <<0, 0, 0, 0, 0, 0, 0, 0>>, e |-> 0]>>,
    <<<<0, 0, 0>>, <<1, 2, 3>>,
      [sign |-> 0, m |-> <<0, 0, 0, 0, 0, 0, 0, 0>>, e |-> 0]>>,
    <<<<0, 0, 0>>, <<1, 1, 0>>,
      [sign |-> 0, m |-> <<0, 0, 0, 0, 0, 0, 0, 0>>, e |-> 0]>>,
    <<<<0, 0, 0>>, <<1, 0, 7>>,
      [sign |-> 0, m |-> <<0, 0, 0, 0, 0, 0, 0, 0>>, e |-> 0]>>,
    <<<<0, 0, 0>>, <<1, 0, 0>>,
      [sign |-> 0, m |-> <<0, 0, 0, 0, 0, 0, 0, 0>>, e |-> 0]>>,
    <<<<0, 0, 0>>, <<0, 0, 0>>,
      [sign |-> 0, m |-> <<0, 0, 0, 0, 0, 0, 0, 0>>, e |-> 0]>>,
    <<<<0, 0, 0>>, <<-1, -1, 0>>,
      [sign |-> 0, m |-> <<0, 0, 0, 0, 0, 0, 0, 0>>, e |-> 0]>>,
    <<<<0, 0, 0>>, <<-2, 0, 1>>,
      [sign |-> 0, m |-> <<0, 0, 0, 0, 0, 0, 0, 0>>, e |-> 0]>> }

\* every row of the table holds what CosineSimilarity returns for its vectors,
\* and there is a row for every pair
SimilarityTableComputed ==
  SimilarityTable =
    {<<q, v, CosineSimilarity(q, v)>> : q \in QueryVectors, v \in SimilarityVectors}
    \cup {<<<<1, 0, 0, 0>>, v, CosineSimilarity(<<1, 0, 0, 0>>, v)>> :
            v \in FourValueVectors}

\* cosineSimilarity(vecA, vecB), read from the table
SimilarityOf(vecA, vecB) ==
  (CHOOSE t \in SimilarityTable : t[1] = vecA /\ t[2] = vecB)[3]

\* a filter that keeps a similarity equal to the threshold
AtLeastThreshold(s) == ~FloatGreater(SimilarityThreshold, s)

\* s.similarity > SIMILARITY_THRESHOLD
AboveThreshold(s) == FloatGreater(s, SimilarityThreshold)

\* sort((a, b) => b.similarity - a.similarity): stable, descending
SortBySimilarity(seq) ==
  LET n == Len(seq)
      place == [i \in 1..n |->
                  Cardinality({j \in 1..n :
                     \/ FloatGreater(seq[j].similarity, seq[i].similarity)
                     \/ /\ ~FloatGreater(seq[i].similarity, seq[j].similarity)
                        /\ j < i}) + 1]
  IN  [k \in 1..n |-> seq[CHOOSE i \in 1..n : place[i] = k]]

\* getEmbeddings: one call per text, in order; the first failure is thrown
GetEmbeddingsFails(messageEmbeddings) ==
  \E i \in 1..Len(messageEmbeddings) : ~messageEmbeddings[i].ok

(***************************************************************************)
(* QueryAgent.  queryEmbedding and messageEmbeddings are what the          *)
(* embedding provider answers for the query and for each turn's content.   *)
(***************************************************************************)
StopWords ==
  {"the", "a", "an", "and", "or", "but", "in", "on", "at", "to", "for", "of",
   "with", "by", "is", "are", "was", "were", "be", "been", "being", "have",
   "has", "had", "do", "does", "did"}

ExtractKeywords(query) ==
  LET words == SplitWs(ReplacePunct(ToLowerCase(query)), "", <<>>, FALSE)
      kept == SelectSeq(words, LAMBDA word : Len(word) > 2 /\ word \notin StopWords)
  IN  Unique(kept, <<>>)

\* uniqueMessages after the turns of matches went through
\* if (!uniqueMessages.has(message.id)) uniqueMessages.set(message.id, message)
AddUnique(uniqueMessages, matches) ==
  LET ids == {uniqueMessages[i].id : i \in 1..Len(uniqueMessages)}
      fresh == {i \in 1..Len(matches) :
                  /\ matches[i].id \notin ids
                  /\ \A j \in 1..(i - 1) : matches[j].id # matches[i].id}
      order == SelectSeq([i \in 1..Len(matches) |-> i], LAMBDA i : i \in fresh)
  IN  uniqueMessages \o [k \in 1..Len(order) |-> matches[order[k]]]

\* a keyword stage that keeps every match of a keyword
KeywordMatchesUncapped(keyword, allMessages, keywordLimit) ==
  SortByLength(SelectSeq(allMessages,
                 LAMBDA message : Includes(ToLowerCase(message.content),
                                           ToLowerCase(keyword))))

KeywordMatches(keyword, allMessages, keywordLimit) ==
  LET matches == SelectSeq(allMessages,
                   LAMBDA message : Includes(ToLowerCase(message.content),
                                             ToLowerCase(keyword)))
  IN  Slice(SortByLength(matches), keywordLimit)

RECURSIVE CollectKeywordMatches(_, _, _, _)
CollectKeywordMatches(keywords, allMessages, keywordLimit, uniqueMessages) ==
  IF Len(keywords) = 0 THEN uniqueMessages
  ELSE CollectKeywordMatches(Tail(keywords), allMessages, keywordLimit,
         AddUnique(uniqueMessages,
                   KeywordMatches(Head(keywords), allMessages, keywordLimit)))

KeywordSearch(query, allMessages) ==
  LET keywords == ExtractKeywords(query)
      keywordLimit == IF Len(keywords) < FewKeywords
                      THEN KeywordLimitFew ELSE KeywordLimitMany
  IN  IF Len(keywords) = 0 THEN <<>>
      ELSE CollectKeywordMatches(keywords, allMessages, keywordLimit, <<>>)

\* the body of semanticSearch once the embeddings are there: similarities,
\* threshold, descending sort, the first SemanticLimit
RankBySimilarity(allMessages, queryEmbedding, messageEmbeddings) ==
  LET similarities ==
        [i \in 1..Len(allMessages) |->
           [message |-> allMessages[i],
            similarity |-> SimilarityOf(queryEmbedding.values,
                                            messageEmbeddings[i].values)]]
      relevant == SelectSeq(similarities, LAMBDA s : AboveThreshold(s.similarity))
      sorted == SortBySimilarity(relevant)
  IN  Slice([i \in 1..Len(sorted) |-> sorted[i].message], SemanticLimit)

\* a semantic stage that keeps the turns embedded before the failure
SemanticSearchPartial(allMessages, queryEmbedding, messageEmbeddings) ==
  IF ~queryEmbedding.ok THEN <<>>
  ELSE LET firstBad == IF GetEmbeddingsFails(messageEmbeddings)
                       THEN CHOOSE i \in 1..Len(messageEmbeddings) :
                              /\ ~messageEmbeddings[i].ok
                              /\ \A j \in 1..(i - 1) : messageEmbeddings[j].ok
                       ELSE Len(messageEmbeddings) + 1
       IN  RankBySimilarity(SubSeq(allMessages, 1, firstBad - 1), queryEmbedding,
                            SubSeq(messageEmbeddings, 1, firstBad - 1))

SemanticSearch(allMessages, queryEmbedding, messageEmbeddings) ==
  IF ~queryEmbedding.ok \/ GetEmbeddingsFails(messageEmbeddings) THEN <<>>
  ELSE RankBySimilarity(allMessages, queryEmbedding, messageEmbeddings)

\* a merge that appends every semantic result, already present or not
MergeNoDedup(keywordBasedResults, semanticSearchResults) ==
  keywordBasedResults \o semanticSearchResults

\* a merge that puts the semantic results first
MergeSemanticFirst(keywordBasedResults, semanticSearchResults) ==
  LET ids == {semanticSearchResults[i].id : i \in 1..Len(semanticSearchResults)}
  IN  semanticSearchResults
      \o SelectSeq(keywordBasedResults, LAMBDA m : m.id \notin ids)

\* combinedResults: the keyword results, then the semantic results whose id
\* is not among the keyword results
MergeResults(keywordBasedResults, semanticSearchResults) ==
  LET existingIds == {keywordBasedResults[i].id : i \in 1..Len(keywordBasedResults)}
  IN  keywordBasedResults
      \o SelectSeq(semanticSearchResults, LAMBDA m : m.id \notin existingIds)

QueryMessages(query, allMessages, queryEmbedding, messageEmbeddings) ==
  IF Len(allMessages) = 0 THEN <<>>
  ELSE Slice(MergeResults(KeywordSearch(query, allMessages),
                          SemanticSearch(allMessages, queryEmbedding,
                                         messageEmbeddings)),
             FinalLimit)

(***************************************************************************)
(* Language-model provider.  A text call answers [ok |-> TRUE, text |-> t] *)
(* or fails; a generation call answers one of the GenOutcome kinds.        *)
(***************************************************************************)
ProviderText(t) == [ok |-> TRUE, text |-> t]
ProviderFailure == [ok |-> FALSE, text |-> ""]

GenText(t) == [kind |-> "text", text |-> t]
GenBlockedPrompt == [kind |-> "block_prompt", text |-> ""]
GenBlockedCandidate == [kind |-> "block_candidate", text |-> ""]
GenErrorSafety == [kind |-> "error_safety", text |-> ""]
GenErrorApiKey == [kind |-> "error_api_key", text |-> ""]
GenErrorOther == [kind |-> "error_other", text |-> ""]

\* Array.prototype.join
RECURSIVE Join(_, _)
Join(texts, sep) ==
  IF Len(texts) = 0 THEN ""
  ELSE IF Len(texts) = 1 THEN texts[1]
  ELSE texts[1] \o sep \o Join(Tail(texts), sep)

(***************************************************************************)
(* SmartRagAgent.filterContext                                             *)
(***************************************************************************)
\* a filterContext without the early return
FilterContextNoGuard(userMessage, retrievedMemories, recentHistory, outcome) ==
  IF ~outcome.ok THEN [thrown |-> TRUE, text |-> "", calls |-> 1]
  ELSE [thrown |-> FALSE, text |-> Trim(outcome.text), calls |-> 1]

\* a filterContext that answers "" when its provider call fails
FilterContextSilent(userMessage, retrievedMemories, recentHistory, outcome) ==
  IF Len(retrievedMemories) = 0 THEN [thrown |-> FALSE, text |-> "", calls |-> 0]
  ELSE [thrown |-> FALSE, text |-> IF outcome.ok THEN Trim(outcome.text) ELSE "",
        calls |-> 1]

FilterContext(userMessage, retrievedMemories, recentHistory, outcome) ==
  IF Len(retrievedMemories) = 0 THEN [thrown |-> FALSE, text |-> "", calls |-> 0]
  ELSE IF ~outcome.ok THEN [thrown |-> TRUE, text |-> "", calls |-> 1]
  ELSE [thrown |-> FALSE, text |-> Trim(outcome.text), calls |-> 1]

(***************************************************************************)
(* GenerationAgent.generateStoryResponse                                   *)
(***************************************************************************)
SafetySentinel == "Generation error due to Safety Issue"
\* the source's apostrophe is U+2019
NoTextApology == "I couldn't generate a response. Please try again."

MemoryContext(relevantMemories) ==
  Join([i \in 1..Len(relevantMemories) |->
          "[Memory " \o ToString(i) \o "]: " \o relevantMemories[i]], "\n")

SystemInstruction(context) ==
  context.behaviorPrompt
  \o (IF context.characterPreset # ""
      THEN "\n\n--- PRESET CHARACTER DETAILS ---\n" \o context.characterPreset
      ELSE "")
  \o (IF context.lore # ""
      THEN "\n\n--- WORLD LORE & BACKGROUND ---\n" \o context.lore
      ELSE "")
  \o (IF context.frameworkTemplate # ""
      THEN "\n\nOutput Format:\n" \o context.frameworkTemplate
      ELSE "")
  \o (IF context.highFidelityTranscript # ""
      THEN "\n\n--- Full Transcript of a Relevant Past Event ---\n"
           \o context.highFidelityTranscript
      ELSE IF Len(context.relevantMemories) > 0
      THEN "\n\n--- Relevant Context from Memory ---\n"
           \o MemoryContext(context.relevantMemories)
      ELSE "")

\* the Content[] sent to the provider
RequestContents(userMessage, context) ==
  LET systemInstruction == SystemInstruction(context)
      contents ==
        [i \in 1..Len(context.conversationHistory) |->
           [role |-> IF context.conversationHistory[i].role = "user"
                     THEN "user" ELSE "model",
            text |-> context.conversationHistory[i].content]]
      injected ==
        IF Len(contents) > 0 /\ contents[1].role = "user"
        THEN [contents EXCEPT ![1].text =
                systemInstruction \o "\n\n---\n\n" \o contents[1].text]
        ELSE <<[role |-> "user", text |-> systemInstruction]>> \o contents
  IN  Append(injected, [role |-> "user", text |-> userMessage])

\* the outcomes the result handling treats as a safety block
BlockedKinds == {"block_prompt", "block_candidate", "error_safety"}

\* a generation that re-throws a raised error even when it carries a block
GenerateStoryResponseRaising(userMessage, context, outcome) ==
  LET contents == RequestContents(userMessage, context)
  IN  CASE outcome.kind \in {"block_prompt", "block_candidate"} ->
             [thrown |-> FALSE, text |-> SafetySentinel, contents |-> contents]
        [] outcome.kind = "text" ->
             [thrown |-> FALSE,
              text |-> IF outcome.text # "" THEN outcome.text ELSE NoTextApology,
              contents |-> contents]
        [] OTHER ->
             [thrown |-> TRUE, text |-> "", contents |-> contents]

GenerateStoryResponse(userMessage, context, outcome) ==
  LET contents == RequestContents(userMessage, context)
  IN  CASE outcome.kind \in BlockedKinds ->
             [thrown |-> FALSE, text |-> SafetySentinel, contents |-> contents]
        [] outcome.kind = "text" ->
             [thrown |-> FALSE,
              text |-> IF outcome.text # "" THEN outcome.text ELSE NoTextApology,
              contents |-> contents]
        [] OTHER ->
             [thrown |-> TRUE, text |-> "", contents |-> contents]

(***************************************************************************)
(* ProofreaderAgent.reviewResponse                                         *)
(***************************************************************************)
NoFeedbackDefault ==
  "The response was non-compliant, but no specific feedback was provided."

\* text.replace(/^NON-COMPLIANT\s*/, '')
StripNonCompliant(text) ==
  IF StartsWith(text, "NON-COMPLIANT")
  THEN TrimStart(SubSeq(text, Len("NON-COMPLIANT") + 1, Len(text)))
  ELSE text

\* a reviewer whose failure is reported as a non-compliant verdict
ReviewResponseFailClosed(outcome) ==
  IF ~outcome.ok THEN [isCompliant |-> FALSE, feedback |-> NoFeedbackDefault]
  ELSE [isCompliant |-> StartsWith(Trim(outcome.text), "COMPLIANT"),
        feedback |-> IF StartsWith(Trim(outcome.text), "COMPLIANT") THEN Null
                     ELSE NoFeedbackDefault]

ReviewResponse(outcome) ==
  IF ~outcome.ok THEN [isCompliant |-> TRUE, feedback |-> Null]
  ELSE LET text == Trim(outcome.text)
       IN  IF StartsWith(text, "COMPLIANT")
           THEN [isCompliant |-> TRUE, feedback |-> Null]
           ELSE LET feedback == Trim(StripNonCompliant(text))
                IN  [isCompliant |-> FALSE,
                     feedback |-> IF feedback # "" THEN feedback
                                  ELSE NoFeedbackDefault]

(***************************************************************************)
(* OrchestratorAgent._extractLocation                                      *)
(***************************************************************************)
LocationLabel == "**Location:**"
NotAvailable == "N/A"
\* location.length > 5
MinLocationLength == 5

\* (.*): up to the end of the line
RECURSIVE LineRest(_)
LineRest(s) ==
  IF Len(s) = 0 \/ CharAt(s, 1) \in {"\n", "\r"} THEN ""
  ELSE CharAt(s, 1) \o LineRest(SubSeq(s, 2, Len(s)))

\* group 1 of text.match(/^\s*\*\*Location:\*\*\s*(.*)/), "" when no match
ExplicitLocation(text) ==
  LET t == TrimStart(text)
  IN  IF StartsWith(t, LocationLabel)
      THEN LineRest(TrimStart(SubSeq(t, Len(LocationLabel) + 1, Len(t))))
      ELSE ""

\* an extractor that asks the model before it looks for the explicit line
ExtractLocationModelFirst(text, outcome) ==
  IF text = "" THEN [location |-> Null, calls |-> 0]
  ELSE IF outcome.ok /\ Len(Trim(outcome.text)) > MinLocationLength
  THEN [location |-> Trim(outcome.text), calls |-> 1]
  ELSE [location |-> IF ExplicitLocation(text) # ""
                     THEN Trim(ExplicitLocation(text)) ELSE Null,
        calls |-> 1]

\* an extractor that takes whatever the model answers
ExtractLocationAcceptAny(text, outcome) ==
  IF text = "" THEN [location |-> Null, calls |-> 0]
  ELSE IF ExplicitLocation(text) # ""
  THEN [location |-> Trim(ExplicitLocation(text)), calls |-> 0]
  ELSE IF ~outcome.ok THEN [location |-> Null, calls |-> 1]
  ELSE [location |-> Trim(outcome.text), calls |-> 1]

ExtractLocation(text, outcome) ==
  IF text = "" THEN [location |-> Null, calls |-> 0]
  ELSE IF ExplicitLocation(text) # ""
  THEN [location |-> Trim(ExplicitLocation(text)), calls |-> 0]
  ELSE IF ~outcome.ok THEN [location |-> Null, calls |-> 1]
  ELSE LET location == Trim(outcome.text)
       IN  IF location # "" /\ location # NotAvailable
              /\ Len(location) > MinLocationLength
           THEN [location |-> location, calls |-> 1]
           ELSE [location |-> Null, calls |-> 1]

(***************************************************************************)
(* ClassificationAgent.classifyMemory                                      *)
(***************************************************************************)
OtherType == "OTHER"

\* position of the first c in s, 0 when there is none
IndexOf(s, c) ==
  IF \E i \in 1..Len(s) : CharAt(s, i) = c
  THEN CHOOSE i \in 1..Len(s) :
         CharAt(s, i) = c /\ \A j \in 1..(i - 1) : CharAt(s, j) # c
  ELSE 0

\* position of the last c in s, 0 when there is none
LastIndexOf(s, c) ==
  IF \E i \in 1..Len(s) : CharAt(s, i) = c
  THEN CHOOSE i \in 1..Len(s) :
         CharAt(s, i) = c /\ \A j \in (i + 1)..Len(s) : CharAt(s, j) # c
  ELSE 0

\* responseText.match(/\{[\s\S]*\}/): from the first "{" to the last "}"
\* after it, "" when there is no match
JsonMatch(responseText) ==
  LET first == IndexOf(responseText, "{")
      last == LastIndexOf(responseText, "}")
  IN  IF first > 0 /\ last > first THEN SubSeq(responseText, first, last) ELSE ""

NotJson == [ok |-> FALSE, hasType |-> FALSE, typeIsString |-> FALSE, type |-> ""]

JsonDigits == {CharAt("0123456789", i) : i \in 1..10}

\* a JSON value: a string without escapes, a number, or a literal
JsonValue(v) ==
  IF Len(v) >= 2 /\ CharAt(v, 1) = "\"" /\ CharAt(v, Len(v)) = "\""
     /\ IndexOf(SubSeq(v, 2, Len(v) - 1), "\"") = 0
  THEN [ok |-> TRUE, isString |-> TRUE, text |-> SubSeq(v, 2, Len(v) - 1)]
  ELSE IF v \in {"null", "true", "false"}
          \/ (Len(v) > 0 /\ \A i \in 1..Len(v) : CharAt(v, i) \in JsonDigits)
  THEN [ok |-> TRUE, isString |-> FALSE, text |-> ""]
  ELSE [ok |-> FALSE, isString |-> FALSE, text |-> ""]

\* JSON.parse of a text that starts with "{" and ends with "}", for objects
\* of at most one member: {} or {"key": value}; anything else that the
\* answers drawn below contain is not JSON
JsonParseObject(json) ==
  LET inner == Trim(SubSeq(json, 2, Len(json) - 1))
      keyEnd == IndexOf(SubSeq(inner, 2, Len(inner)), "\"") + 1
      key == SubSeq(inner, 2, keyEnd - 1)
      afterKey == TrimStart(SubSeq(inner, keyEnd + 1, Len(inner)))
      value == JsonValue(Trim(SubSeq(afterKey, 2, Len(afterKey))))
  IN  IF inner = ""
      THEN [ok |-> TRUE, hasType |-> FALSE, typeIsString |-> FALSE, type |-> ""]
      ELSE IF CharAt(inner, 1) # "\"" \/ keyEnd < 2 THEN NotJson
      ELSE IF CharAt(afterKey, 1) # ":" \/ ~value.ok THEN NotJson
      ELSE [ok |-> TRUE, hasType |-> key = "type",
            typeIsString |-> key = "type" /\ value.isString,
            type |-> IF key = "type" THEN value.text ELSE ""]

\* a classifyMemory whose errors leave the function
ClassifyMemoryRaising(outcome) ==
  IF ~outcome.ok THEN [thrown |-> TRUE, type |-> ""]
  ELSE LET jsonMatch == JsonMatch(outcome.text)
           parsed == JsonParseObject(jsonMatch)
       IN  IF jsonMatch = "" \/ ~parsed.ok \/ ~parsed.typeIsString
           THEN [thrown |-> TRUE, type |-> ""]
           ELSE [thrown |-> FALSE, type |-> parsed.type]

\* lines 36-57: every throw of the try block ends in the catch
ClassifyMemory(outcome) ==
  IF ~outcome.ok THEN [thrown |-> FALSE, type |-> OtherType]
  ELSE LET jsonMatch == JsonMatch(outcome.text)
           parsed == JsonParseObject(jsonMatch)
       IN  IF jsonMatch = "" THEN [thrown |-> FALSE, type |-> OtherType]
           ELSE IF ~parsed.ok THEN [thrown |-> FALSE, type |-> OtherType]
           ELSE IF parsed.typeIsString THEN [thrown |-> FALSE, type |-> parsed.type]
           ELSE [thrown |-> FALSE, type |-> OtherType]

(***************************************************************************)
(* gemini.summarizeForMemory: up to maxRetries provider calls              *)
(***************************************************************************)
SummaryMaxRetries == 3

\* a retry loop that goes on after the last attempt has failed
SummaryAfterCallNoLimit(text, outcome, attempt) ==
  IF outcome.ok
  THEN [done |-> TRUE, summary |-> IF outcome.text # "" THEN outcome.text ELSE text]
  ELSE [done |-> FALSE, summary |-> ""]

\* lines 116-133, what one attempt leads to: return the answer (the source
\* text when the answer is empty), return the source text after the last
\* failure, or go on
SummaryAfterCall(text, outcome, attempt) ==
  IF outcome.ok
  THEN [done |-> TRUE, summary |-> IF outcome.text # "" THEN outcome.text ELSE text]
  ELSE IF attempt = SummaryMaxRetries THEN [done |-> TRUE, summary |-> text]
  ELSE [done |-> FALSE, summary |-> ""]

RECURSIVE SummarizeAttempt(_, _, _)
SummarizeAttempt(text, outcomes, attempt) ==
  LET after == SummaryAfterCall(text, outcomes[attempt], attempt)
  IN  IF after.done THEN [summary |-> after.summary, calls |-> attempt]
      ELSE SummarizeAttempt(text, outcomes, attempt + 1)

SummarizeForMemory(messageTexts, outcomes) ==
  SummarizeAttempt(Join(messageTexts, "\n"), outcomes, 1)

(***************************************************************************)
(* State.                                                                  *)
(***************************************************************************)
VARIABLES
  \* storage collaborator
  messages,      \* the messages table, in creation order
  memoryLogs,    \* the memory_logs table
  settings,      \* the settings row, [present |-> FALSE, ...] when there is none
  envKey,        \* process.env.GEMINI_API_KEY, "" when unset
  \* the request being served (handleRequest or POST /api/chat)
  pc,            \* where the handler stands
  kind,          \* "orchestrator" or "chat"
  userMessage,
  history,       \* updatedConversationHistory / allMessages of the handler
  lastKnownLocation,
  chatContext,
  attempt,       \* the loop variable i of handleRequest
  generatedResponse,
  response,
  newLocation,
  outcome,       \* what the caller gets: [status, value]
  \* observations of the request being served
  startLen,      \* number of stored turns when the request started
  genTexts,      \* the text of each completed generation call
  genHistories,  \* context.conversationHistory as given to each generation call
  genContents,   \* the contents sent to the provider by each generation call
  genCalls,      \* generateStoryResponse calls, thrown ones included
  genBlocked,    \* for each generation call, whether the provider blocked it
  verdicts,      \* the verdict of each review, with whether the provider failed
  retrievedCount,\* length of the list given to filterContext, -1 before
  distillCalls,  \* provider calls made by filterContext
  distillFailed, \* whether the provider call of filterContext failed
  locationCalls, \* provider calls made by _extractLocation
  logsCreated,   \* memory logs created by this request
  \* the retrieval specification: one queryMessages call
  qPc, qQuery, qCorpus, qQueryEmbedding, qMessageEmbeddings, qResult,
  \* the distillation specification: one filterContext call
  dPc, dUserMessage, dRetrievedMemories, dRecentHistory, dOutcome, dResult,
  \* the location specification: lines 102-105 of handleRequest on one text
  lPc, lText, lLastKnownLocation, lOutcome, lExtracted, lStored,
  \* the summary specification: one summarizeForMemory call, step by step
  sPc, sMessages, sAttempt, sOutcomes, sDelays, sSummary,
  \* the classification specification: one classifyMemory call
  cPc, cText, cApiKey, cOutcome, cResult,
  \* the similarity specification: one cosineSimilarity call and the
  \* threshold test of semanticSearch on its result
  simPc, simVecA, simVecB, simResult, simRelevant,
  \* the review specification: one reviewResponse call
  rPc, rResponse, rUserMessage, rOutcome, rVerdict,
  \* the concurrent specification: the POST /api/chat requests being served
  chats

storageVars == <<messages, memoryLogs, settings, envKey>>
requestVars == <<pc, kind, userMessage, history, lastKnownLocation, chatContext,
                 attempt, generatedResponse, response, newLocation, outcome>>
observationVars == <<startLen, genTexts, genHistories, genContents, genCalls, genBlocked,
                     verdicts, retrievedCount, distillCalls, distillFailed, locationCalls,
                     logsCreated>>
queryVars == <<qPc, qQuery, qCorpus, qQueryEmbedding, qMessageEmbeddings, qResult>>
distillVars == <<dPc, dUserMessage, dRetrievedMemories, dRecentHistory, dOutcome,
                 dResult>>
locateVars == <<lPc, lText, lLastKnownLocation, lOutcome, lExtracted, lStored>>
summaryVars == <<sPc, sMessages, sAttempt, sOutcomes, sDelays, sSummary>>
classifyVars == <<cPc, cText, cApiKey, cOutcome, cResult>>
similarityVars == <<simPc, simVecA, simVecB, simResult, simRelevant>>
reviewVars == <<rPc, rResponse, rUserMessage, rOutcome, rVerdict>>
concurrentVars == <<chats>>
pureVars ==
  <<queryVars, distillVars, locateVars, summaryVars, classifyVars, similarityVars,
    reviewVars, concurrentVars>>
vars == <<storageVars, requestVars, observationVars, pureVars>>

(***************************************************************************)
(* Inputs and provider answers the model draws from.                       *)
(***************************************************************************)
DefaultBehaviorPrompt == "You are a creative and engaging storyteller."

NoSettings ==
  [present |-> FALSE, geminiApiKey |-> "", behaviorPrompt |-> "",
   frameworkTemplate |-> "", characterPreset |-> "", lore |-> ""]

StoredSettings ==
  [present |-> TRUE, geminiApiKey |-> "stored-key",
   behaviorPrompt |-> DefaultBehaviorPrompt, frameworkTemplate |-> "",
   characterPreset |-> "Mira, a ranger.", lore |-> "Two moons."]

KeylessSettings ==
  [present |-> TRUE, geminiApiKey |-> "",
   behaviorPrompt |-> DefaultBehaviorPrompt, frameworkTemplate |-> "Header first.",
   characterPreset |-> "", lore |-> ""]

\* the deployments: the settings row and process.env.GEMINI_API_KEY
Configurations ==
  { [settings |-> StoredSettings, envKey |-> ""],
    [settings |-> KeylessSettings, envKey |-> ""],
    [settings |-> NoSettings, envKey |-> "env-key"] }

ClientKeyChoices == {"", "client-key"}

UserInputs == {"What color is the sky?", ""}

TextA == "The sky is blue."
TextB == "**Location:** Forest | Noon\nA bird sings."

GenOutcomes ==
  {GenText(TextA), GenText(TextB), GenText(""), GenBlockedPrompt,
   GenBlockedCandidate, GenErrorSafety, GenErrorOther}

FeedbackF == "time skipped 6 hours"

ReviewOutcomes ==
  {ProviderText("COMPLIANT"), ProviderText("NON-COMPLIANT " \o FeedbackF),
   ProviderFailure}

LocationOutcomes ==
  {ProviderText("Village Square | Dawn"), ProviderText("N/A"), ProviderFailure}

DistillOutcomes == {ProviderText(" The sky is blue. "), ProviderFailure}

\* what the embedding provider answers for the query and for the n turns
EmbeddingOutcomes(n) ==
  { [query |-> Embedded(QueryVector),
     turns |-> [i \in 1..n |-> Embedded(QueryVector)]],
    [query |-> EmbedFailure, turns |-> [i \in 1..n |-> EmbedFailure]] }

SummaryOutcomes ==
  { <<ProviderText("Summary."), ProviderFailure, ProviderFailure>>,
    <<ProviderFailure, ProviderFailure, ProviderFailure>> }

(***************************************************************************)
(* Storage collaborator.                                                   *)
(***************************************************************************)
\* storage.createMessage: the row as inserted, the id fresh
CreateMessage(table, role, content, location) ==
  Append(table, [id |-> Len(table) + 1, role |-> role, content |-> content,
                 location |-> location])

\* importance of a memory log created by the chat endpoint
DefaultImportance == 5
\* a memory log every ConsolidateEvery messages, from the last ones
ConsolidateEvery == 4

(***************************************************************************)
(* Initial state: an empty store, no request being served.                 *)
(***************************************************************************)
NoContext ==
  [behaviorPrompt |-> "", frameworkTemplate |-> "", characterPreset |-> "",
   lore |-> "", highFidelityTranscript |-> "", relevantMemories |-> <<>>,
   conversationHistory |-> <<>>]
NoOutcome == [status |-> "none", value |-> ""]

RequestIdle ==
  /\ pc = "idle" /\ kind = "none" /\ userMessage = "" /\ history = <<>>
  /\ lastKnownLocation = "" /\ chatContext = NoContext /\ attempt = 0
  /\ generatedResponse = "" /\ response = "" /\ newLocation = ""
  /\ outcome = NoOutcome

ObservationsReset ==
  /\ startLen = 0 /\ genTexts = <<>> /\ genHistories = <<>> /\ genContents = <<>>
  /\ genCalls = 0 /\ genBlocked = <<>> /\ verdicts = <<>> /\ retrievedCount = -1 /\ distillCalls = 0 /\ distillFailed = FALSE
  /\ locationCalls = 0 /\ logsCreated = 0

QueryIdle ==
  /\ qPc = "off" /\ qQuery = "" /\ qCorpus = <<>>
  /\ qQueryEmbedding = EmbedFailure /\ qMessageEmbeddings = <<>> /\ qResult = <<>>

NoDistillation == [thrown |-> FALSE, text |-> "", calls |-> 0]

DistillIdle ==
  /\ dPc = "off" /\ dUserMessage = "" /\ dRetrievedMemories = <<>>
  /\ dRecentHistory = <<>> /\ dOutcome = ProviderFailure /\ dResult = NoDistillation

NoExtraction == [location |-> Null, calls |-> 0]
NoTurn == [id |-> 0, role |-> "", content |-> "", location |-> Null]

LocateIdle ==
  /\ lPc = "off" /\ lText = "" /\ lLastKnownLocation = "" /\ lOutcome = ProviderFailure
  /\ lExtracted = NoExtraction /\ lStored = NoTurn

SummaryIdle ==
  /\ sPc = "off" /\ sMessages = <<>> /\ sAttempt = 0 /\ sOutcomes = <<>>
  /\ sDelays = <<>> /\ sSummary = ""

NoClassification == [thrown |-> FALSE, type |-> ""]

ClassifyIdle ==
  /\ cPc = "off" /\ cText = "" /\ cApiKey = "" /\ cOutcome = ProviderFailure
  /\ cResult = NoClassification

SimilarityIdle ==
  /\ simPc = "off" /\ simVecA = <<>> /\ simVecB = <<>> /\ simResult = FloatZero
  /\ simRelevant = FALSE

NoVerdict == [isCompliant |-> FALSE, feedback |-> ""]

ReviewIdle ==
  /\ rPc = "off" /\ rResponse = "" /\ rUserMessage = "" /\ rOutcome = ProviderFailure
  /\ rVerdict = NoVerdict

ConcurrentIdle == chats = <<>>

\* the specifications of single functions that are not running
OthersIdle(running) ==
  /\ running = "query" \/ QueryIdle
  /\ running = "distill" \/ DistillIdle
  /\ running = "locate" \/ LocateIdle
  /\ running = "summary" \/ SummaryIdle
  /\ running = "classify" \/ ClassifyIdle
  /\ running = "similarity" \/ SimilarityIdle
  /\ running = "review" \/ ReviewIdle
  /\ running = "concurrent" \/ ConcurrentIdle

Init ==
  /\ messages = <<>>
  /\ memoryLogs = <<>>
  /\ \E c \in Configurations : settings = c.settings /\ envKey = c.envKey
  /\ RequestIdle
  /\ ObservationsReset
  /\ OthersIdle("pipeline")

(***************************************************************************)
(* A request may start when none is being served and the store has room.   *)
(***************************************************************************)
CanStart == pc \in {"idle", "done", "failed"} /\ Len(messages) + 2 <= MaxTurns

\* the observations of a request that starts with n turns stored
ObservationsStart(n) ==
  /\ startLen' = n /\ genTexts' = <<>> /\ genHistories' = <<>>
  /\ genContents' = <<>> /\ genCalls' = 0 /\ genBlocked' = <<>> /\ verdicts' = <<>>
  /\ retrievedCount' = -1 /\ distillCalls' = 0 /\ distillFailed' = FALSE /\ locationCalls' = 0
  /\ logsCreated' = 0

\* the locals of a handler that has just been entered
LocalsStart(k, msg) ==
  /\ kind' = k /\ userMessage' = msg /\ chatContext' = NoContext /\ attempt' = 0
  /\ generatedResponse' = "" /\ response' = "" /\ newLocation' = ""

Failed(message) == [status |-> "error", value |-> message]
Returned(text) == [status |-> "ok", value |-> text]

\* a || b that never looks at b
OrElseFirst(a, b) == a

\* a || b on strings and null
OrElse(a, b) == IF a = Null \/ a = "" THEN b ELSE a

(***************************************************************************)
(* OrchestratorAgent.handleRequest                                         *)
(***************************************************************************)
\* MAX_RETRIES
MaxRetries == 2
\* updatedConversationHistory.slice(-20)
HistoryWindow == 20
\* rawConversationHistory.slice(-5)
RecentWindow == 5

UnknownLocation == "Unknown"

CorrectiveNote(feedback) ==
  "System Note: The previous response was not compliant. Please fix the following issues and regenerate the response:\n- "
  \o feedback

\* lines 49-63: settings, key, previous location, the user turn is stored
OrchStart(msg, rawConversationHistory, clientApiKey) ==
  /\ CanStart
  /\ LocalsStart("orchestrator", msg)
  /\ ObservationsStart(Len(messages))
  /\ IF ~settings.present
     THEN /\ pc' = "failed" /\ outcome' = Failed("Settings not found.")
          /\ lastKnownLocation' = "" /\ history' = <<>>
          /\ UNCHANGED messages
     ELSE IF OrElse(clientApiKey, settings.geminiApiKey) = ""
     THEN /\ pc' = "failed" /\ outcome' = Failed("Gemini API key is missing.")
          /\ lastKnownLocation' = "" /\ history' = <<>>
          /\ UNCHANGED messages
     ELSE LET last == IF Len(rawConversationHistory) > 0
                      THEN OrElse(rawConversationHistory[Len(rawConversationHistory)].location,
                                  UnknownLocation)
                      ELSE UnknownLocation
              stored == CreateMessage(messages, "user", msg, last)
          IN  /\ lastKnownLocation' = last
              /\ messages' = stored
              /\ history' = Append(rawConversationHistory, stored[Len(stored)])
              /\ pc' = "distill" /\ outcome' = NoOutcome
  /\ UNCHANGED <<memoryLogs, settings, envKey, pureVars>>

\* SmartRagAgent.handleRequest: retrieval, then filterContext
SmartRagHandleRequest(msg, rawConversationHistory, allMessages, emb, distilled) ==
  LET retrievedMemories == QueryMessages(msg, allMessages, emb.query, emb.turns)
      filtered == FilterContext(msg, retrievedMemories,
                                SliceLast(rawConversationHistory, RecentWindow),
                                distilled)
  IN  [retrieved |-> Len(retrievedMemories), thrown |-> filtered.thrown,
       text |-> filtered.text, calls |-> filtered.calls,
       failed |-> filtered.calls = 1 /\ ~distilled.ok]

\* lines 65-76: distillation, then the chat context
OrchDistill ==
  /\ pc = "distill"
  /\ \E emb \in EmbeddingOutcomes(Len(messages)), distilled \in DistillOutcomes :
       LET r == SmartRagHandleRequest(userMessage, history, messages, emb, distilled)
       IN  /\ retrievedCount' = r.retrieved
           /\ distillCalls' = r.calls
           /\ distillFailed' = r.failed
           /\ IF r.thrown
              THEN /\ pc' = "failed" /\ outcome' = Failed("distillation failed")
                   /\ UNCHANGED chatContext
              ELSE /\ pc' = "generate" /\ UNCHANGED outcome
                   /\ chatContext' =
                        [behaviorPrompt |-> settings.behaviorPrompt,
                         frameworkTemplate |-> settings.frameworkTemplate,
                         characterPreset |-> settings.characterPreset,
                         lore |-> "",
                         highFidelityTranscript |-> "",
                         relevantMemories |-> <<r.text>>,
                         conversationHistory |->
                           LET recent == SliceLast(history, HistoryWindow)
                           IN  [i \in 1..Len(recent) |->
                                  [role |-> IF recent[i].role = "user"
                                            THEN "user" ELSE "model",
                                   content |-> recent[i].content]]]
  /\ UNCHANGED <<storageVars, kind, userMessage, history, lastKnownLocation,
                 attempt, generatedResponse, response, newLocation, startLen,
                 genTexts, genHistories, genContents, genCalls, genBlocked, verdicts,
                 locationCalls, logsCreated, pureVars>>

\* lines 80-84: one generation attempt
OrchGenerate ==
  /\ pc = "generate"
  /\ \E g \in GenOutcomes :
       LET r == GenerateStoryResponse(userMessage, chatContext, g)
       IN  /\ genCalls' = genCalls + 1
           /\ genBlocked' = Append(genBlocked, g.kind \in BlockedKinds)
           /\ genHistories' = Append(genHistories, chatContext.conversationHistory)
           /\ genContents' = Append(genContents, r.contents)
           /\ IF r.thrown
              THEN /\ pc' = "failed" /\ outcome' = Failed("Failed to generate response")
                   /\ UNCHANGED <<generatedResponse, genTexts>>
              ELSE /\ pc' = "review" /\ UNCHANGED outcome
                   /\ generatedResponse' = r.text
                   /\ genTexts' = Append(genTexts, r.text)
  /\ UNCHANGED <<storageVars, kind, userMessage, history, lastKnownLocation,
                 chatContext, attempt, response, newLocation, startLen, verdicts,
                 retrievedCount, distillCalls, distillFailed, locationCalls, logsCreated,
                 pureVars>>

\* a loop that goes on after a compliant verdict
AfterReviewNoBreak(review, context, i, generated) ==
  [pc |-> IF i + 1 < MaxRetries THEN "generate" ELSE "locate",
   i |-> i + 1,
   context |-> context]

\* a loop without the bound on the attempts
AfterReviewUnbounded(review, context, i, generated) ==
  IF review.isCompliant
  THEN [pc |-> "locate", i |-> i, context |-> context]
  ELSE [pc |-> "generate", i |-> i + 1, context |-> context]

\* lines 89-99 and the loop header, as [pc, i, context]: break when compliant,
\* otherwise push the rejected text and the corrective note and go on while
\* i < MAX_RETRIES
AfterReview(review, context, i, generated) ==
  IF review.isCompliant
  THEN [pc |-> "locate", i |-> i, context |-> context]
  ELSE [pc |-> IF i + 1 < MaxRetries THEN "generate" ELSE "locate",
        i |-> i + 1,
        context |->
          [context EXCEPT !.conversationHistory =
             @ \o <<[role |-> "model", content |-> generated],
                    [role |-> "user",
                     content |-> CorrectiveNote(review.feedback)]>>]]

\* lines 87-99: the review of the attempt
OrchReview ==
  /\ pc = "review"
  /\ \E o \in ReviewOutcomes :
       LET review == ReviewResponse(o)
           next == AfterReview(review, chatContext, attempt, generatedResponse)
       IN  /\ verdicts' = Append(verdicts,
                                 [isCompliant |-> review.isCompliant,
                                  feedback |-> review.feedback,
                                  failed |-> ~o.ok])
           /\ response' = generatedResponse
           /\ pc' = next.pc
           /\ attempt' = next.i
           /\ chatContext' = next.context
  /\ UNCHANGED <<storageVars, kind, userMessage, history, lastKnownLocation,
                 generatedResponse, newLocation, outcome, startLen, genTexts,
                 genHistories, genContents, genCalls, genBlocked, retrievedCount,
                 distillCalls, distillFailed, locationCalls, logsCreated, pureVars>>

\* a handler that stores what _extractLocation returned, without the fallback
OrchLocateNoFallback ==
  /\ pc = "locate"
  /\ \E l \in LocationOutcomes :
       LET r == ExtractLocation(response, l)
       IN  /\ newLocation' = r.location
           /\ locationCalls' = r.calls
  /\ pc' = "persist"
  /\ UNCHANGED <<storageVars, kind, userMessage, history, lastKnownLocation,
                 chatContext, attempt, generatedResponse, response, outcome,
                 startLen, genTexts, genHistories, genContents, genCalls, genBlocked,
                 verdicts, retrievedCount, distillCalls, distillFailed, logsCreated, pureVars>>

\* line 102: the new location, or the previous one
OrchLocate ==
  /\ pc = "locate"
  /\ \E l \in LocationOutcomes :
       LET r == ExtractLocation(response, l)
       IN  /\ newLocation' = OrElse(r.location, lastKnownLocation)
           /\ locationCalls' = r.calls
  /\ pc' = "persist"
  /\ UNCHANGED <<storageVars, kind, userMessage, history, lastKnownLocation,
                 chatContext, attempt, generatedResponse, response, outcome,
                 startLen, genTexts, genHistories, genContents, genCalls, genBlocked,
                 verdicts, retrievedCount, distillCalls, distillFailed, logsCreated, pureVars>>

\* a handler that stores and returns the text of the first attempt
OrchPersistFirstAttempt ==
  /\ pc = "persist"
  /\ messages' = CreateMessage(messages, "assistant", genTexts[1], newLocation)
  /\ outcome' = Returned(genTexts[1])
  /\ pc' = "done"
  /\ UNCHANGED <<memoryLogs, settings, envKey, kind, userMessage, history,
                 lastKnownLocation, chatContext, attempt, generatedResponse,
                 response, newLocation, observationVars, pureVars>>

\* lines 105-107: the assistant turn is stored, the text returned
OrchPersist ==
  /\ pc = "persist"
  /\ messages' = CreateMessage(messages, "assistant", response, newLocation)
  /\ outcome' = Returned(response)
  /\ pc' = "done"
  /\ UNCHANGED <<memoryLogs, settings, envKey, kind, userMessage, history,
                 lastKnownLocation, chatContext, attempt, generatedResponse,
                 response, newLocation, observationVars, pureVars>>

(***************************************************************************)
(* POST /api/chat                                                          *)
(***************************************************************************)
ChatDefaultBehaviorPrompt ==
  "You are a creative and engaging storyteller. Your responses should be imaginative, vivid, and captivating."

\* lines 83-99: body parsed, key looked up, the user turn is stored
ChatStart(content) ==
  /\ CanStart
  /\ LocalsStart("chat", content)
  /\ ObservationsStart(Len(messages))
  /\ lastKnownLocation' = "" /\ history' = <<>>
  /\ IF OrElse(settings.geminiApiKey, envKey) = ""
     THEN /\ pc' = "failed"
          /\ outcome' = Failed("Gemini API key not configured. Please add it in Settings.")
          /\ UNCHANGED messages
     ELSE /\ messages' = CreateMessage(messages, "user", content, Null)
          /\ pc' = "chat_distill" /\ outcome' = NoOutcome
  /\ UNCHANGED <<memoryLogs, settings, envKey, pureVars>>

\* lines 102-133: the stored turns are read, distillation, the chat context
ChatDistill ==
  /\ pc = "chat_distill"
  /\ history' = messages
  /\ \E emb \in EmbeddingOutcomes(Len(messages)), distilled \in DistillOutcomes :
       LET r == SmartRagHandleRequest(userMessage, messages, messages, emb, distilled)
       IN  /\ retrievedCount' = r.retrieved
           /\ distillCalls' = r.calls
           /\ distillFailed' = r.failed
           /\ IF r.thrown
              THEN /\ pc' = "failed" /\ outcome' = Failed("distillation failed")
                   /\ UNCHANGED chatContext
              ELSE /\ pc' = "chat_generate" /\ UNCHANGED outcome
                   /\ chatContext' =
                        [behaviorPrompt |->
                           OrElse(settings.behaviorPrompt, ChatDefaultBehaviorPrompt),
                         frameworkTemplate |-> settings.frameworkTemplate,
                         characterPreset |-> settings.characterPreset,
                         lore |-> settings.lore,
                         highFidelityTranscript |-> "",
                         relevantMemories |->
                           IF r.text # "" THEN <<r.text>> ELSE <<>>,
                         conversationHistory |->
                           LET recent == SliceLast(messages, HistoryWindow)
                           IN  [i \in 1..Len(recent) |->
                                  [role |-> recent[i].role,
                                   content |-> recent[i].content]]]
  /\ UNCHANGED <<storageVars, kind, userMessage, lastKnownLocation, attempt,
                 generatedResponse, response, newLocation, startLen, genTexts,
                 genHistories, genContents, genCalls, genBlocked, verdicts, locationCalls,
                 logsCreated, pureVars>>

\* line 136: the generation
ChatGenerate ==
  /\ pc = "chat_generate"
  /\ \E g \in GenOutcomes :
       LET r == GenerateStoryResponse(userMessage, chatContext, g)
       IN  /\ genCalls' = genCalls + 1
           /\ genBlocked' = Append(genBlocked, g.kind \in BlockedKinds)
           /\ genHistories' = Append(genHistories, chatContext.conversationHistory)
           /\ genContents' = Append(genContents, r.contents)
           /\ IF r.thrown
              THEN /\ pc' = "failed" /\ outcome' = Failed("Failed to generate response")
                   /\ UNCHANGED <<response, genTexts>>
              ELSE /\ pc' = "chat_review" /\ UNCHANGED outcome
                   /\ response' = r.text
                   /\ genTexts' = Append(genTexts, r.text)
  /\ UNCHANGED <<storageVars, kind, userMessage, history, lastKnownLocation,
                 chatContext, attempt, generatedResponse, newLocation, startLen,
                 verdicts, retrievedCount, distillCalls, distillFailed, locationCalls,
                 logsCreated, pureVars>>

\* lines 139-146: the review; a non-compliant verdict is only logged
ChatReview ==
  /\ pc = "chat_review"
  /\ \E o \in ReviewOutcomes :
       LET review == ReviewResponse(o)
       IN  verdicts' = Append(verdicts,
                              [isCompliant |-> review.isCompliant,
                               feedback |-> review.feedback,
                               failed |-> ~o.ok])
  /\ pc' = "chat_persist"
  /\ UNCHANGED <<storageVars, kind, userMessage, history, lastKnownLocation,
                 chatContext, attempt, generatedResponse, response, newLocation,
                 outcome, startLen, genTexts, genHistories, genContents,
                 genCalls, genBlocked, retrievedCount, distillCalls, distillFailed, locationCalls,
                 logsCreated, pureVars>>

\* lines 154-157: the assistant turn is stored
ChatPersist ==
  /\ pc = "chat_persist"
  /\ messages' = CreateMessage(messages, "assistant", response, Null)
  /\ pc' = "chat_consolidate"
  /\ UNCHANGED <<memoryLogs, settings, envKey, kind, userMessage, history,
                 lastKnownLocation, chatContext, attempt, generatedResponse,
                 response, newLocation, outcome, observationVars, pureVars>>

\* lastFourMessages.map(m => `${m.role}: ${m.content}`).join("\n")
ConversationSnippet(turns) ==
  Join([i \in 1..Len(turns) |-> turns[i].role \o ": " \o turns[i].content], "\n")

\* lines 160-182: a memory log every 4 stored messages, then the answer
ChatConsolidate ==
  /\ pc = "chat_consolidate"
  /\ LET totalMessages == Len(messages)
         lastFourMessages == SliceLast(messages, ConsolidateEvery)
     IN  IF totalMessages % ConsolidateEvery = 0 /\ totalMessages > 0
         THEN \E outcomes \in SummaryOutcomes :
                /\ memoryLogs' =
                     Append(memoryLogs,
                       [content |-> ConversationSnippet(lastFourMessages),
                        summary |->
                          SummarizeForMemory(
                            [i \in 1..Len(lastFourMessages) |->
                               lastFourMessages[i].content], outcomes).summary,
                        importance |-> DefaultImportance])
                /\ logsCreated' = logsCreated + 1
         ELSE UNCHANGED <<memoryLogs, logsCreated>>
  /\ outcome' = Returned(response)
  /\ pc' = "done"
  /\ UNCHANGED <<messages, settings, envKey, kind, userMessage, history,
                 lastKnownLocation, chatContext, attempt, generatedResponse,
                 response, newLocation, startLen, genTexts, genHistories,
                 genContents, genCalls, genBlocked, verdicts, retrievedCount, distillCalls, distillFailed,
                 locationCalls, pureVars>>

(***************************************************************************)
(* The pipeline: requests served one after the other.                      *)
(***************************************************************************)
Next ==
  \/ \E msg \in UserInputs, raw \in {<<>>, messages}, key \in ClientKeyChoices :
       OrchStart(msg, raw, key)
  \/ OrchDistill
  \/ OrchGenerate
  \/ OrchReview
  \/ OrchLocate
  \/ OrchPersist
  \/ \E content \in UserInputs : ChatStart(content)
  \/ ChatDistill
  \/ ChatGenerate
  \/ ChatReview
  \/ ChatPersist
  \/ ChatConsolidate

Spec == Init /\ [][Next]_vars

\* a step of handleRequest after its entry: every awaited call returns or fails
OrchStep == OrchDistill \/ OrchGenerate \/ OrchReview \/ OrchLocate \/ OrchPersist

\* handleRequest calls one after the other
InitHandle ==
  /\ messages = <<>>
  /\ memoryLogs = <<>>
  /\ \E c \in Configurations : settings = c.settings /\ envKey = c.envKey
  /\ RequestIdle
  /\ ObservationsReset
  /\ OthersIdle("pipeline")

NextHandle ==
  \/ \E msg \in UserInputs, key \in ClientKeyChoices : OrchStart(msg, messages, key)
  \/ OrchStep

\* handleRequest is between its entry and its return
OrchInProgress ==
  kind = "orchestrator" /\ pc \in {"distill", "generate", "review", "locate", "persist"}

\* no awaited call of handleRequest stays pending for ever: WF_vars(OrchStep),
\* with ENABLED <<OrchStep>>_vars written as the states in which it holds
HandleFairness == []<>(~OrchInProgress) \/ []<><<OrchStep>>_vars

SpecFair == InitHandle /\ [][NextHandle]_vars /\ HandleFairness

(***************************************************************************)
(* The retrieval specification: QueryAgent.queryMessages on a stored       *)
(* corpus, for a query and for what the embedding provider answers.        *)
(***************************************************************************)
Turn(id, role, content, location) ==
  [id |-> id, role |-> role, content |-> content, location |-> location]

\* the four turns of setupTestData
TestCorpus ==
  << Turn(1, "assistant", "The sky is blue in the village.", "Village"),
     Turn(2, "user", "I look at the sky.", "Village"),
     Turn(3, "assistant", "You see a bird flying in the forest.", "Forest"),
     Turn(4, "user", "I follow the bird.", "Forest") >>

\* upper case, a keyword inside a longer word, contents of equal length
MixedCorpus ==
  << Turn(1, "user", "The SKY at night", Null),
     Turn(2, "assistant", "A skyline of towers and a colorful sky.", "City"),
     Turn(3, "user", "What now?", Null),
     Turn(4, "assistant", "Sky.", "City"),
     Turn(5, "user", "Blue", Null),
     Turn(6, "assistant", "sky!", "City") >>

CorpusWords ==
  << "alpha", "bravo", "charlie", "delta", "echo", "foxtrot", "golf", "hotel",
     "india", "juliet", "kilo", "zzzz" >>

\* n turns: turn i holds word (i mod 12) and a filler of (i mod 4) characters
BigCorpus(n) ==
  [i \in 1..n |->
     Turn(i, IF i % 2 = 1 THEN "user" ELSE "assistant",
          CorpusWords[(i % 12) + 1] \o " " \o SubSeq("xxx", 1, i % 4), Null)]

\* more turns with "sky" than either limit keeps, of 4 lengths
CapCorpusSize == 17
CapCorpus(n) ==
  [i \in 1..n |->
     Turn(i, IF i % 2 = 1 THEN "user" ELSE "assistant",
          (IF i % 3 = 0 THEN "Sky " ELSE "sky ") \o SubSeq("...", 1, i % 4),
          Null)]

QueryFive == "sky alpha bravo charlie delta"

QueryNine == "alpha bravo charlie delta echo foxtrot golf hotel india"
QueryEleven == QueryNine \o ", Juliet; KILO"

\* the provider's vectors for the turns of a corpus, by position
VectorsByWord(n) ==
  [i \in 1..n |->
     Embedded(CASE i % 12 \in {9, 10, 11} -> <<1, 1, 0>>
                [] i % 12 = 1 -> <<2, 2, 1>>
                [] i % 12 = 2 -> <<1, 0, 7>>
                [] i % 12 = 3 -> <<0, 0, 0>>
                [] i % 12 = 4 -> <<1, 0, 0>>
                [] OTHER -> <<-1, -1, 0>>)]

VectorsCycle(n) ==
  [i \in 1..n |->
     Embedded(CASE i % 5 = 0 -> <<1, 0, 7>>
                [] i % 5 = 1 -> <<1, 0, 0>>
                [] i % 5 = 2 -> <<0, 0, 0>>
                [] i % 5 = 3 -> <<3, 3, 0>>
                [] OTHER -> <<-2, 0, 1>>)]

\* the embedding call for turn k fails
FailingAt(vectors, k) ==
  [i \in 1..Len(vectors) |-> IF i = k THEN EmbedFailure ELSE vectors[i]]

TurnEmbeddings(n) ==
  { VectorsByWord(n), VectorsCycle(n), FailingAt(VectorsByWord(n), n),
    FailingAt(VectorsCycle(n), 2) }

QueryEmbeddings == {Embedded(QueryVector), Embedded(<<0, 0, 0>>), EmbedFailure}

SmallQueries ==
  {"What color is the sky?", "", "Is it?", "sky, SKY and the blue sky", QueryNine}

\* what the retrieval of the test run reads: handleRequest has stored the
\* question as a turn before queryMessages loads the turns
TestCorpusAtQuery ==
  Append(TestCorpus, Turn(5, "user", "What color is the sky?", "Unknown"))

\* vectors of similarity 1, of a similarity between the threshold and 1, of a
\* similarity under the threshold, and of a negative one
SkyVectors == {QueryVector, <<2, 1, 0>>, <<1, 0, 7>>, <<-1, -1, 0>>}

\* the question of the test over its corpus, every turn with every vector
SkyInputs ==
  { [query |-> "What color is the sky?", corpus |-> c,
     queryEmbedding |-> Embedded(QueryVector),
     turns |-> [i \in 1..Len(c) |-> Embedded(IF i = 5 THEN QueryVector ELSE t[i])]] :
    c \in {TestCorpus, TestCorpusAtQuery}, t \in [1..4 -> SkyVectors] }

\* one keyword and five keywords over the turns of CapCorpus
CapInputs ==
  { [query |-> q, corpus |-> CapCorpus(CapCorpusSize), queryEmbedding |-> e,
     turns |-> VectorsCycle(CapCorpusSize)] :
    q \in {"sky", "The sky?", QueryFive, "Is it?"},
    e \in {Embedded(QueryVector), EmbedFailure} }

\* vectors of four values: of similarity 0.1 to <<1, 0, 0, 0>>, of a
\* similarity just above it, of similarity 1, and the zero vector
ThresholdVectors ==
  <<Embedded(<<1, 9, 3, 3>>), Embedded(<<1, 9, 3, 2>>), Embedded(<<1, 0, 0, 0>>),
    Embedded(<<0, 0, 0, 0>>)>>

\* a query without keywords over the turns of the test, the vectors in the
\* four rotations of ThresholdVectors
ThresholdInputs ==
  { [query |-> "Is it?", corpus |-> TestCorpus,
     queryEmbedding |-> Embedded(<<1, 0, 0, 0>>),
     turns |-> [i \in 1..4 |-> ThresholdVectors[((i + r) % 4) + 1]]] :
    r \in 0..3 }

QueryInputs ==
  SkyInputs \cup CapInputs \cup ThresholdInputs \cup
  UNION { { [query |-> q, corpus |-> c, queryEmbedding |-> e, turns |-> t] :
              t \in TurnEmbeddings(Len(c)) } :
          q \in SmallQueries, c \in {<<>>, TestCorpus, MixedCorpus},
          e \in QueryEmbeddings }
  \cup
  UNION { { [query |-> q, corpus |-> c, queryEmbedding |-> e, turns |-> t] :
              t \in {VectorsByWord(Len(c)), FailingAt(VectorsByWord(Len(c)), Len(c))} } :
          q \in {QueryNine, QueryEleven, "alpha"}, c \in {BigCorpus(BigCorpusSize)},
          e \in {Embedded(QueryVector), EmbedFailure} }

InitQuery ==
  /\ messages = <<>> /\ memoryLogs = <<>>
  /\ settings = NoSettings /\ envKey = ""
  /\ RequestIdle
  /\ ObservationsReset
  /\ \E input \in QueryInputs :
       /\ qQuery = input.query
       /\ qCorpus = input.corpus
       /\ qQueryEmbedding = input.queryEmbedding
       /\ qMessageEmbeddings = input.turns
  /\ qPc = "ready"
  /\ qResult = <<>>
  /\ OthersIdle("query")

\* whether queryMessages throws: both embedding calls are inside the try
\* block of semanticSearch, whose catch returns []
QueryMessagesThrows(queryEmbedding, messageEmbeddings) == FALSE

RunQueryMessages ==
  /\ qPc = "ready"
  /\ IF Len(qCorpus) > 0 /\ QueryMessagesThrows(qQueryEmbedding, qMessageEmbeddings)
     THEN qPc' = "thrown" /\ qResult' = <<>>
     ELSE /\ qPc' = "returned"
          /\ qResult' = QueryMessages(qQuery, qCorpus, qQueryEmbedding,
                                      qMessageEmbeddings)
  /\ UNCHANGED <<storageVars, requestVars, observationVars, qQuery, qCorpus,
                 qQueryEmbedding, qMessageEmbeddings, distillVars, locateVars,
                 summaryVars, classifyVars, similarityVars, reviewVars, concurrentVars>>

NextQuery == RunQueryMessages

SpecQuery == InitQuery /\ [][NextQuery]_vars

(***************************************************************************)
(* The distillation specification: SmartRagAgent.filterContext on a user   *)
(* message, a retrieved list and a recent history, for what the provider   *)
(* answers when it is called.                                              *)
(***************************************************************************)
FilterMessages == {"What color is the sky?", "", "and then?"}
FilterRetrieved == {<<>>, TestCorpus, MixedCorpus, SubSeq(TestCorpus, 1, 1)}
FilterHistories == {<<>>, TestCorpus, SliceLast(MixedCorpus, RecentWindow)}
FilterOutcomes == DistillOutcomes \cup {ProviderText("")}

InitDistill ==
  /\ messages = <<>> /\ memoryLogs = <<>>
  /\ settings = NoSettings /\ envKey = ""
  /\ RequestIdle
  /\ ObservationsReset
  /\ OthersIdle("distill")
  /\ dUserMessage \in FilterMessages
  /\ dRetrievedMemories \in FilterRetrieved
  /\ dRecentHistory \in FilterHistories
  /\ dPc = "ready"
  /\ dOutcome = ProviderFailure
  /\ dResult = NoDistillation

RunFilterContext ==
  /\ dPc = "ready"
  /\ \E o \in FilterOutcomes :
       LET r == FilterContext(dUserMessage, dRetrievedMemories, dRecentHistory, o)
       IN  /\ dOutcome' = o
           /\ dResult' = r
           /\ dPc' = IF r.thrown THEN "thrown" ELSE "returned"
  /\ UNCHANGED <<storageVars, requestVars, observationVars, queryVars,
                 locateVars, summaryVars, classifyVars, similarityVars, reviewVars, concurrentVars,
                 dUserMessage,
                 dRetrievedMemories, dRecentHistory>>

NextDistill == RunFilterContext

SpecDistill == InitDistill /\ [][NextDistill]_vars

(***************************************************************************)
(* The location specification: lines 102-105 of handleRequest, that is     *)
(* _extractLocation on a final text, the fallback to the previous location *)
(* and the assistant turn as stored, for what the provider answers.        *)
(***************************************************************************)
LocateTexts ==
  { TextA, TextB, "",
    "Location: Forest | Noon\nA bird sings.",
    "**Location:**\nCave | Dusk",
    "\n  **Location:**   Inn  \nHello.",
    "**Location:**",
    "**Location:**  \n",
    "Once.\n**Location:** Forest | Noon" }

LocateAnswers ==
  LocationOutcomes \cup
  { ProviderText("Inn"), ProviderText("  Harbor Town  \n"), ProviderText(""),
    ProviderText("123456"), ProviderText("12345"), ProviderText(" N/A ") }

PreviousLocations == {UnknownLocation, "Village Square | Dawn"}

InitLocate ==
  /\ messages = <<>> /\ memoryLogs = <<>>
  /\ settings = NoSettings /\ envKey = ""
  /\ RequestIdle
  /\ ObservationsReset
  /\ OthersIdle("locate")
  /\ lText \in LocateTexts
  /\ lLastKnownLocation \in PreviousLocations
  /\ lPc = "ready"
  /\ lOutcome = ProviderFailure
  /\ lExtracted = NoExtraction
  /\ lStored = NoTurn

\* _extractLocation never throws: its provider call is inside try/catch
RunLocate ==
  /\ lPc = "ready"
  /\ \E o \in LocateAnswers :
       LET r == ExtractLocation(lText, o)
           newLocation_ == OrElse(r.location, lLastKnownLocation)
           stored == CreateMessage(<<>>, "assistant", lText, newLocation_)
       IN  /\ lOutcome' = o
           /\ lExtracted' = r
           /\ lStored' = stored[1]
  /\ lPc' = "persisted"
  /\ UNCHANGED <<storageVars, requestVars, observationVars, queryVars,
                 distillVars, summaryVars, classifyVars, similarityVars, reviewVars, concurrentVars,
                 lText,
                 lLastKnownLocation>>

NextLocate == RunLocate

SpecLocate == InitLocate /\ [][NextLocate]_vars

(***************************************************************************)
(* The summary specification: gemini.summarizeForMemory, one provider call *)
(* and one wait at a time.                                                 *)
(***************************************************************************)
SummaryMessages ==
  { <<>>, <<"The sky is blue.">>, <<"hi", "there">>,
    <<"What color is the sky?", "The sky is blue.", "and then?", "Night fell.">> }

SummaryAnswers ==
  {ProviderText("Summary."), ProviderText("Another."), ProviderText(""), ProviderFailure}

\* Math.random() * 1000, at its ends
Jitters == {0, 999}

InitSummary ==
  /\ messages = <<>> /\ memoryLogs = <<>>
  /\ settings = NoSettings /\ envKey = ""
  /\ RequestIdle
  /\ ObservationsReset
  /\ OthersIdle("summary")
  /\ sMessages \in SummaryMessages
  /\ sPc = "call" /\ sAttempt = 1
  /\ sOutcomes = <<>> /\ sDelays = <<>> /\ sSummary = ""

\* lines 116-133: one attempt
SummaryCall ==
  /\ sPc = "call"
  /\ \E o \in SummaryAnswers :
       LET after == SummaryAfterCall(Join(sMessages, "\n"), o, sAttempt)
       IN  /\ sOutcomes' = Append(sOutcomes, o)
           /\ IF after.done
              THEN sPc' = "returned" /\ sSummary' = after.summary
              ELSE sPc' = "wait" /\ UNCHANGED sSummary
  /\ UNCHANGED <<storageVars, requestVars, observationVars, queryVars,
                 distillVars, locateVars, classifyVars, similarityVars, reviewVars, concurrentVars,
                 sMessages, sAttempt,
                 sDelays>>

\* lines 135-138: the wait before the next attempt
SummaryWait ==
  /\ sPc = "wait"
  /\ \E jitter \in Jitters :
       sDelays' = Append(sDelays, 2 ^ sAttempt * 1000 + jitter)
  /\ sAttempt' = sAttempt + 1
  /\ sPc' = "call"
  /\ UNCHANGED <<storageVars, requestVars, observationVars, queryVars,
                 distillVars, locateVars, classifyVars, similarityVars, reviewVars, concurrentVars,
                 sMessages, sOutcomes,
                 sSummary>>

NextSummary == SummaryCall \/ SummaryWait

SpecSummary == InitSummary /\ [][NextSummary]_vars

(***************************************************************************)
(* The classification specification: classifyMemory on a memory text, for  *)
(* what the provider answers.                                              *)
(***************************************************************************)
ClassifyTexts ==
  {"", "The sky is blue.", "Mira, a ranger.", "user: hi\nassistant: {\"type\": 1}"}

ClassifyAnswers ==
  { ProviderFailure,
    ProviderText("{\"type\": \"PLOT\"}"),
    ProviderText("json\n{ \"type\" : \"LORE\" }\n"),
    ProviderText("Here: {\"type\":\"EVENT\"} done"),
    ProviderText("{\"type\": \"\"}"),
    ProviderText("{\"type\": \"WEATHER\"}"),
    ProviderText("PLOT"),
    ProviderText(""),
    ProviderText("}{"),
    ProviderText("{type: PLOT}"),
    ProviderText("{\"type\": \"PLOT\"} and {\"type\": \"LORE\"}"),
    ProviderText("{\"type\": PLOT}"),
    ProviderText("{\"type\": 5}"),
    ProviderText("{\"type\": null}"),
    ProviderText("{\"kind\": \"PLOT\"}"),
    ProviderText("{}") }

InitClassify ==
  /\ messages = <<>> /\ memoryLogs = <<>>
  /\ settings = NoSettings /\ envKey = ""
  /\ RequestIdle
  /\ ObservationsReset
  /\ OthersIdle("classify")
  /\ cText \in ClassifyTexts
  /\ cApiKey \in ClientKeyChoices
  /\ cPc = "ready"
  /\ cOutcome = ProviderFailure
  /\ cResult = NoClassification

RunClassifyMemory ==
  /\ cPc = "ready"
  /\ \E o \in ClassifyAnswers :
       LET r == ClassifyMemory(o)
       IN  /\ cOutcome' = o
           /\ cResult' = r
           /\ cPc' = IF r.thrown THEN "thrown" ELSE "returned"
  /\ UNCHANGED <<storageVars, requestVars, observationVars, queryVars,
                 distillVars, locateVars, summaryVars, similarityVars, reviewVars, concurrentVars, cText,
                 cApiKey>>

NextClassify == RunClassifyMemory

SpecClassify == InitClassify /\ [][NextClassify]_vars

(***************************************************************************)
(* The similarity specification: cosineSimilarity on two vectors of equal  *)
(* length, and the threshold test of semanticSearch on the result.         *)
(***************************************************************************)
InitSimilarity ==
  /\ messages = <<>> /\ memoryLogs = <<>>
  /\ settings = NoSettings /\ envKey = ""
  /\ RequestIdle
  /\ ObservationsReset
  /\ OthersIdle("similarity")
  /\ simVecA \in SimilarityVectors
  /\ simVecB \in SimilarityVectors
  /\ simPc = "ready"
  /\ simResult = FloatZero
  /\ simRelevant = FALSE

RunCosineSimilarity ==
  /\ simPc = "ready"
  /\ simResult' = CosineSimilarity(simVecA, simVecB)
  /\ simRelevant' = FloatGreater(simResult', SimilarityThreshold)
  /\ simPc' = "returned"
  /\ UNCHANGED <<storageVars, requestVars, observationVars, queryVars,
                 distillVars, locateVars, summaryVars, classifyVars, reviewVars, concurrentVars, simVecA,
                 simVecB>>

NextSimilarity == RunCosineSimilarity

SpecSimilarity == InitSimilarity /\ [][NextSimilarity]_vars

(***************************************************************************)
(* The review specification: reviewResponse on a generated response, for   *)
(* what the provider answers.                                              *)
(***************************************************************************)
ReviewAnswers ==
  { ProviderFailure,
    ProviderText("COMPLIANT"),
    ProviderText("  COMPLIANT\n"),
    ProviderText("COMPLIANT. Nothing to fix."),
    ProviderText("NON-COMPLIANT " \o FeedbackF),
    ProviderText("NON-COMPLIANT\n\n  " \o FeedbackF \o "  "),
    ProviderText("NON-COMPLIANT"),
    ProviderText(" NON-COMPLIANT \n"),
    ProviderText(""),
    ProviderText("   "),
    ProviderText("compliant"),
    ProviderText("The response is COMPLIANT"),
    ProviderText("Verdict: NON-COMPLIANT " \o FeedbackF) }

InitReview ==
  /\ messages = <<>> /\ memoryLogs = <<>>
  /\ settings = NoSettings /\ envKey = ""
  /\ RequestIdle
  /\ ObservationsReset
  /\ OthersIdle("review")
  /\ rResponse \in {TextA, TextB, SafetySentinel, NoTextApology}
  /\ rUserMessage \in UserInputs
  /\ rPc = "ready"
  /\ rOutcome = ProviderFailure
  /\ rVerdict = NoVerdict

RunReviewResponse ==
  /\ rPc = "ready"
  /\ \E o \in ReviewAnswers :
       /\ rOutcome' = o
       /\ rVerdict' = ReviewResponse(o)
  /\ rPc' = "returned"
  /\ UNCHANGED <<storageVars, requestVars, observationVars, queryVars,
                 distillVars, locateVars, summaryVars, classifyVars,
                 similarityVars, concurrentVars, rResponse, rUserMessage>>

NextReview == RunReviewResponse

SpecReview == InitReview /\ [][NextReview]_vars

(***************************************************************************)
(* The concurrent specification: POST /api/chat requests served at the     *)
(* same time.  Each storage call is one step; the provider calls between   *)
(* two storage calls touch no shared state and are part of the step that   *)
(* follows the storage call.                                               *)
(***************************************************************************)
\* the requests in flight
ChatRequests == {1, 2}

\* the store when the requests arrive: empty, or after one exchange
EarlierTurns ==
  { <<>>,
    CreateMessage(CreateMessage(<<>>, "user", "What color is the sky?", Null),
                  "assistant", TextA, Null) }

NewChat ==
  [pc |-> "received", content |-> "", response |-> "", updatedMessages |-> <<>>,
   totalMessages |-> 0]

InitConcurrent ==
  /\ messages \in EarlierTurns /\ memoryLogs = <<>>
  /\ settings = StoredSettings /\ envKey = ""
  /\ RequestIdle
  /\ ObservationsReset
  /\ OthersIdle("concurrent")
  /\ chats = [r \in ChatRequests |-> NewChat]

ConcurrentFrame ==
  UNCHANGED <<settings, envKey, requestVars, observationVars, queryVars, distillVars,
              locateVars, summaryVars, classifyVars, similarityVars, reviewVars>>

\* lines 81-99: the body is parsed, the key is looked up, the user turn is stored
ConcStoreUser(r, content) ==
  /\ chats[r].pc = "received"
  /\ IF OrElse(settings.geminiApiKey, envKey) = ""
     THEN /\ chats' = [chats EXCEPT ![r].pc = "failed", ![r].content = content]
          /\ UNCHANGED messages
     ELSE /\ messages' = CreateMessage(messages, "user", content, Null)
          /\ chats' = [chats EXCEPT ![r].pc = "stored", ![r].content = content]
  /\ UNCHANGED memoryLogs
  /\ ConcurrentFrame

\* lines 124-133: the context for the generation
ChatContextOf(filteredContext, allMessages) ==
  [behaviorPrompt |-> OrElse(settings.behaviorPrompt, ChatDefaultBehaviorPrompt),
   frameworkTemplate |-> settings.frameworkTemplate,
   characterPreset |-> settings.characterPreset,
   lore |-> settings.lore,
   highFidelityTranscript |-> "",
   relevantMemories |-> IF filteredContext # "" THEN <<filteredContext>> ELSE <<>>,
   conversationHistory |->
     LET recent == SliceLast(allMessages, HistoryWindow)
     IN  [i \in 1..Len(recent) |->
            [role |-> recent[i].role, content |-> recent[i].content]]]

\* lines 102-146: the stored turns are read, then distillation, generation and
\* review, which only call the providers
ConcAnswer(r) ==
  /\ chats[r].pc = "stored"
  /\ \E emb \in EmbeddingOutcomes(Len(messages)), distilled \in DistillOutcomes,
        g \in GenOutcomes :
       LET content == chats[r].content
           rag == SmartRagHandleRequest(content, messages, messages, emb, distilled)
           generated == GenerateStoryResponse(content,
                                              ChatContextOf(rag.text, messages), g)
       IN  IF rag.thrown \/ generated.thrown
           THEN chats' = [chats EXCEPT ![r].pc = "failed"]
           ELSE chats' = [chats EXCEPT ![r].pc = "answered",
                                       ![r].response = generated.text]
  /\ UNCHANGED <<messages, memoryLogs>>
  /\ ConcurrentFrame

\* lines 154-157: the assistant turn is stored
ConcPersist(r) ==
  /\ chats[r].pc = "answered"
  /\ messages' = CreateMessage(messages, "assistant", chats[r].response, Null)
  /\ chats' = [chats EXCEPT ![r].pc = "persisted"]
  /\ UNCHANGED memoryLogs
  /\ ConcurrentFrame

\* lines 160-164: the stored turns are read again and counted
ConcCount(r) ==
  /\ chats[r].pc = "persisted"
  /\ LET totalMessages == Len(messages)
     IN  chats' =
           [chats EXCEPT
              ![r].pc = IF totalMessages % ConsolidateEvery = 0 /\ totalMessages > 0
                        THEN "consolidating" ELSE "done",
              ![r].updatedMessages = messages,
              ![r].totalMessages = totalMessages]
  /\ UNCHANGED <<messages, memoryLogs>>
  /\ ConcurrentFrame

\* lines 165-182: the summary of the last four turns read, the memory log
ConcConsolidate(r) ==
  /\ chats[r].pc = "consolidating"
  /\ LET lastFourMessages == SliceLast(chats[r].updatedMessages, ConsolidateEvery)
     IN  \E outcomes \in SummaryOutcomes :
           memoryLogs' =
             Append(memoryLogs,
               [content |-> ConversationSnippet(lastFourMessages),
                summary |->
                  SummarizeForMemory(
                    [i \in 1..Len(lastFourMessages) |->
                       lastFourMessages[i].content], outcomes).summary,
                importance |-> DefaultImportance])
  /\ chats' = [chats EXCEPT ![r].pc = "done"]
  /\ UNCHANGED messages
  /\ ConcurrentFrame

NextConcurrent ==
  \E r \in ChatRequests :
    \/ \E content \in UserInputs : ConcStoreUser(r, content)
    \/ ConcAnswer(r)
    \/ ConcPersist(r)
    \/ ConcCount(r)
    \/ ConcConsolidate(r)

SpecConcurrent == InitConcurrent /\ [][NextConcurrent]_vars

(***************************************************************************)
(* Claims about queryMessages, under SpecQuery.                            *)
(***************************************************************************)
TurnIds(turns) == {turns[i].id : i \in 1..Len(turns)}

\* the stages of the call of the state, recomputed from its inputs
KeywordStage == KeywordSearch(qQuery, qCorpus)
SemanticOnly ==
  LET keywordIds == TurnIds(KeywordStage)
  IN  SelectSeq(RankBySimilarity(qCorpus, qQueryEmbedding, qMessageEmbeddings),
                LAMBDA m : m.id \notin keywordIds)
SomeEmbeddingFails ==
  ~qQueryEmbedding.ok \/ \E i \in 1..Len(qMessageEmbeddings) : ~qMessageEmbeddings[i].ok

\* C6: the list queryMessages returns holds no turn id twice and at most
\* 100 turns, the ids of the stored corpus being pairwise distinct.
C6_NoDuplicatesAndCapped ==
  qPc = "returned" =>
    /\ Cardinality(TurnIds(qResult)) = Len(qResult)
    /\ Len(qResult) <= FinalLimit

\* a call where a semantic result was already a keyword result and the
\* merged list was cut to 100
C6_Witness ==
  /\ qPc = "returned"
  /\ Len(qResult) = FinalLimit
  /\ ~SomeEmbeddingFails
  /\ LET keywordIds == TurnIds(KeywordStage)
         semanticIds == TurnIds(RankBySimilarity(qCorpus, qQueryEmbedding,
                                                 qMessageEmbeddings))
     IN  /\ Cardinality(keywordIds \cup semanticIds) > FinalLimit
         /\ keywordIds \cap semanticIds # {}

\* C7: in the returned list no turn added only by the semantic stage stands
\* before a keyword-stage turn, and when the cut at 100 drops a keyword-stage
\* turn it has dropped every semantic-only turn.
C7_KeywordFirst ==
  qPc = "returned" =>
    LET keywordIds == TurnIds(KeywordStage)
        isKeyword == [i \in 1..Len(qResult) |-> qResult[i].id \in keywordIds]
    IN  /\ \A i, j \in 1..Len(qResult) :
             (i < j /\ isKeyword[j]) => isKeyword[i]
        /\ ~(keywordIds \subseteq TurnIds(qResult))
             => TurnIds(qResult) \subseteq keywordIds

\* a call whose merged list exceeded 100: every keyword-stage turn is kept,
\* some semantic-only turns are kept and some are cut
C7_Witness ==
  /\ qPc = "returned"
  /\ ~SomeEmbeddingFails
  /\ LET keywordIds == TurnIds(KeywordStage)
         semanticOnlyIds == TurnIds(SemanticOnly)
         resultIds == TurnIds(qResult)
     IN  /\ keywordIds # {}
         /\ keywordIds \subseteq resultIds
         /\ semanticOnlyIds \cap resultIds # {}
         /\ semanticOnlyIds \ resultIds # {}

\* C8: when an embedding call fails (for the query or for any one turn),
\* queryMessages does not throw and returns the keyword-stage result, in its
\* order, cut to 100.
C8_EmbeddingFailureKeywordOnly ==
  (qPc # "ready" /\ SomeEmbeddingFails) =>
    /\ qPc = "returned"
    /\ qResult = Slice(KeywordStage, FinalLimit)

\* a call where the embedding of a later turn fails after turns were embedded
\* that the semantic stage would have added to a non-empty keyword result
C8_Witness ==
  /\ qPc = "returned"
  /\ qQueryEmbedding.ok
  /\ Len(qResult) > 0
  /\ LET keywordIds == TurnIds(KeywordStage)
     IN  \E k \in 2..Len(qMessageEmbeddings) :
           /\ ~qMessageEmbeddings[k].ok
           /\ \A j \in 1..(k - 1) : qMessageEmbeddings[j].ok
           /\ \E j \in 1..(k - 1) :
                /\ AboveThreshold(SimilarityOf(qQueryEmbedding.values,
                                               qMessageEmbeddings[j].values))
                /\ qCorpus[j].id \notin keywordIds

(***************************************************************************)
(* Claims about filterContext, under SpecDistill.                          *)
(***************************************************************************)
\* C9: filterContext called with an empty retrieved list returns the empty
\* string and makes no provider call, whatever the user message, the recent
\* history and the state of the provider.
C9_EmptyRetrievedNoCall ==
  (dPc \in {"returned", "thrown"} /\ Len(dRetrievedMemories) = 0) =>
    /\ dPc = "returned"
    /\ dResult.text = ""
    /\ dResult.calls = 0

\* a call with an empty retrieved list, a user message and a recent history,
\* while the provider is failing
C9_Witness ==
  /\ dPc = "returned"
  /\ Len(dRetrievedMemories) = 0
  /\ dUserMessage # ""
  /\ Len(dRecentHistory) > 0
  /\ ~dOutcome.ok

(***************************************************************************)
(* Claims about the location of the assistant turn, under SpecLocate.      *)
(***************************************************************************)
\* the text without its leading whitespace starts with the bold label
StartsWithLabel(text) == StartsWith(TrimStart(text), "**Location:**")
\* what follows the label on the label's own line
SameLineRest(text) ==
  LET t == TrimStart(text)
  IN  LineRest(SubSeq(t, Len("**Location:**") + 1, Len(t)))
\* the first line that follows the label and is not blank, "" when none
LabelledLocation(text) ==
  LET t == TrimStart(text)
  IN  Trim(LineRest(TrimStart(SubSeq(t, Len("**Location:**") + 1, Len(t)))))

\* C11 (as amended): when the text, after leading whitespace, starts with the
\* label **Location:** and a non-blank line remainder follows the label (on
\* the same line or after line breaks), the extractor returns that remainder
\* trimmed and makes no model call whatever the model would answer; a model
\* call is made only for a non-empty text where that pattern finds nothing.
C11_ExplicitLocationFirst ==
  lPc = "persisted" =>
    /\ (StartsWithLabel(lText) /\ LabelledLocation(lText) # "") =>
         /\ lExtracted.calls = 0
         /\ lExtracted.location = LabelledLocation(lText)
         /\ lStored.location = LabelledLocation(lText)
    /\ lExtracted.calls = 1 =>
         /\ lText # ""
         /\ ~(StartsWithLabel(lText) /\ LabelledLocation(lText) # "")
    /\ lExtracted.calls \in {0, 1}

\* a labelled text while the model would have answered another location
C11_Witness ==
  /\ lPc = "persisted"
  /\ StartsWithLabel(lText) /\ LabelledLocation(lText) # ""
  /\ lOutcome.ok /\ Len(Trim(lOutcome.text)) > 5
  /\ Trim(lOutcome.text) # LabelledLocation(lText)
  /\ lExtracted.calls = 0

\* C11 as stated: a text that starts with a Location-labelled line gives the
\* location written on that line, without a model call.
C11_Original ==
  (lPc = "persisted" /\ StartsWithLabel(lText)) =>
    /\ lExtracted.calls = 0
    /\ lExtracted.location = Trim(SameLineRest(lText))

\* C12: when no explicit location is found, the model's answer becomes the
\* location of the assistant turn only if it is non-empty, longer than 5
\* characters and not "N/A"; when the call fails or the answer is rejected the
\* turn is stored with the previous location, and nothing is thrown.
C12_ModelAnswerOrPrevious ==
  (lPc # "ready" /\ ~(StartsWithLabel(lText) /\ LabelledLocation(lText) # "")) =>
    LET answer == Trim(lOutcome.text)
        acceptable == /\ lOutcome.ok /\ lText # ""
                      /\ answer # "" /\ Len(answer) > 5 /\ answer # "N/A"
    IN  /\ lPc = "persisted"
        /\ lStored.role = "assistant" /\ lStored.content = lText
        /\ lStored.location \in {answer, lLastKnownLocation}
        /\ lStored.location # lLastKnownLocation =>
             (acceptable /\ Len(lOutcome.text) > 5)
        /\ ~acceptable => lStored.location = lLastKnownLocation
        /\ acceptable => lStored.location = answer

\* an answer of five characters, rejected, the previous location kept
C12_Witness ==
  /\ lPc = "persisted"
  /\ lExtracted.calls = 1
  /\ lOutcome.ok /\ Len(Trim(lOutcome.text)) = 5
  /\ lStored.location = lLastKnownLocation
  /\ lLastKnownLocation # UnknownLocation

(***************************************************************************)
(* Claims about summarizeForMemory, under SpecSummary.                     *)
(***************************************************************************)
\* C17: summarizeForMemory makes at most 3 provider calls; only its last call
\* can have succeeded, a wait precedes every call after the first, and it
\* returns at the first success, or after the 3rd failure with the messages
\* joined by newlines as the summary; it never throws.
C17_SummaryRetriesThenRawText ==
  /\ Len(sOutcomes) <= 3
  /\ sPc \in {"off", "call", "wait", "returned"}
  /\ \A k \in 1..(Len(sOutcomes) - 1) : ~sOutcomes[k].ok
  /\ sPc \in {"call", "returned"} => Len(sDelays) = Len(sOutcomes) - (IF sPc = "returned" THEN 1 ELSE 0)
  /\ \A k \in 1..Len(sDelays) : sDelays[k] >= 1000
  /\ sPc = "wait" => (Len(sOutcomes) < 3 /\ ~sOutcomes[Len(sOutcomes)].ok)
  /\ sPc = "returned" =>
       LET last == sOutcomes[Len(sOutcomes)]
       IN  IF last.ok
           THEN sSummary = (IF last.text # "" THEN last.text ELSE Join(sMessages, "\n"))
           ELSE Len(sOutcomes) = 3 /\ sSummary = Join(sMessages, "\n")

\* three failures, two waits, the four messages returned joined by newlines
C17_Witness ==
  /\ sPc = "returned" /\ Len(sOutcomes) = 3 /\ Len(sDelays) = 2
  /\ \A k \in 1..3 : ~sOutcomes[k].ok
  /\ Len(sMessages) = 4
  /\ sSummary = "What color is the sky?\nThe sky is blue.\nand then?\nNight fell."

(***************************************************************************)
(* Claims about classifyMemory, under SpecClassify.                        *)
(***************************************************************************)
\* answers that hold no {...} at all
AnswersWithoutObject == {"PLOT", "", "}{"}
\* answers whose {...} is not JSON
AnswersNotParsable ==
  {"{type: PLOT}", "{\"type\": \"PLOT\"} and {\"type\": \"LORE\"}", "{\"type\": PLOT}"}
\* answers whose JSON object has no string under "type"
AnswersWithoutStringType ==
  {"{\"type\": 5}", "{\"type\": null}", "{\"kind\": \"PLOT\"}", "{}"}

\* C18: classifyMemory never throws; when the provider call fails, when the
\* answer holds no JSON object, when its JSON cannot be parsed and when the
\* parsed object has no string "type", it returns the type OTHER.
C18_ClassificationFallsBackToOther ==
  cPc # "ready" =>
    /\ cPc \in {"off", "returned"}
    /\ ~cResult.thrown
    /\ (cPc = "returned" /\
        (\/ ~cOutcome.ok
         \/ cOutcome.text \in AnswersWithoutObject
         \/ cOutcome.text \in AnswersNotParsable
         \/ cOutcome.text \in AnswersWithoutStringType)) =>
         cResult.type = "OTHER"
    /\ (cPc = "returned" /\ cOutcome.text = "Here: {\"type\":\"EVENT\"} done") =>
         cResult.type = "EVENT"

\* two JSON objects in one answer: the match spans both and cannot be parsed
C18_Witness ==
  /\ cPc = "returned"
  /\ cOutcome.text = "{\"type\": \"PLOT\"} and {\"type\": \"LORE\"}"
  /\ cResult.type = "OTHER"
  /\ cText # ""

(***************************************************************************)
(* Claims about cosineSimilarity, under SpecSimilarity.                    *)
(***************************************************************************)
IsZeroVector(v) == \A i \in 1..Len(v) : v[i] = 0

\* the numbers from 1 - 2^-51 to 1 + 2^-51
NearOne(f) ==
  \/ \E k \in 0..2 :
       f = [sign |-> 1, m |-> <<k, 0, 0, 1024, 0, 0, 0, 0>>, e |-> -52]
  \/ \E k \in 1..4 :
       f = [sign |-> 1, m |-> <<16384 - k, 16383, 16383, 2047, 0, 0, 0, 0>>,
            e |-> -53]

MemoryTypes == {"PLOT", "CHARACTER", "EVENT", "LORE", "OTHER"}

\* C26: the type classifyMemory returns is one of PLOT, CHARACTER, EVENT,
\* LORE, OTHER, whatever the model answers.
C26_TypeInClosedSet ==
  cPc = "returned" => cResult.type \in MemoryTypes

(***************************************************************************)
(* Claims about reviewResponse, under SpecReview.                          *)
(***************************************************************************)
\* the answers that begin with the compliant marker once trimmed
MarkedCompliant == {"COMPLIANT", "  COMPLIANT\n", "COMPLIANT. Nothing to fix."}
\* the answers that leave no feedback once the marker is taken off
WithoutFeedback == {"NON-COMPLIANT", " NON-COMPLIANT \n", "", "   "}

\* C25: a compliant verdict has no feedback, a non-compliant verdict has a
\* non-empty feedback; the verdict is compliant exactly when the trimmed answer
\* begins with COMPLIANT or the provider call failed.
C25_VerdictShape ==
  rPc = "returned" =>
    /\ rVerdict.isCompliant => rVerdict.feedback = Null
    /\ ~rVerdict.isCompliant => rVerdict.feedback \notin {Null, ""}
    /\ rVerdict.isCompliant <=> (~rOutcome.ok \/ rOutcome.text \in MarkedCompliant)
    /\ (rOutcome.ok /\ rOutcome.text \in WithoutFeedback) =>
         rVerdict.feedback = NoFeedbackDefault
    /\ (rOutcome.ok /\ rOutcome.text = "NON-COMPLIANT\n\n  " \o FeedbackF \o "  ") =>
         rVerdict.feedback = FeedbackF

\* an empty answer: non-compliant, with the default feedback
C25_Witness ==
  /\ rPc = "returned"
  /\ rOutcome = ProviderText("")
  /\ ~rVerdict.isCompliant
  /\ rVerdict.feedback = NoFeedbackDefault

(***************************************************************************)
(* Claims about the pipeline, under Spec.                                  *)
(***************************************************************************)
Orchestrating == kind = "orchestrator"
PastLoop == pc \in {"locate", "persist", "done"}
LastTurn == messages[Len(messages)]

\* the assistant turns stored since the request started
AssistantTurnsOfRequest ==
  {i \in (startLen + 1)..Len(messages) : messages[i].role = "assistant"}

IsCorrectiveNote(turn) ==
  turn.role = "user" /\ StartsWith(turn.content, "System Note:")
NoteCount(turns) ==
  Cardinality({i \in 1..Len(turns) : IsCorrectiveNote(turns[i])})

\* the failures of handleRequest before its generation loop
EarlyFailures ==
  {Failed("Settings not found."), Failed("Gemini API key is missing."),
   Failed("distillation failed")}

\* C1 (as amended): a handleRequest call makes at most 2 generateStoryResponse
\* calls whatever the verdicts are; it has made at least 1 once an attempt is
\* under review or the loop is over, and a call that ends with none is a call
\* that threw before the loop (no settings, no API key, distillation failed).
C1_GenerationCallsBounded ==
  Orchestrating =>
    /\ genCalls <= 2
    /\ (pc \in {"review", "locate", "persist", "done"}) => genCalls >= 1
    /\ (pc = "failed" /\ genCalls = 0) => outcome \in EarlyFailures

\* a call that went through two attempts and returned
C1_Witness ==
  /\ Orchestrating /\ pc = "done"
  /\ genCalls = 2 /\ Len(verdicts) = 2

\* C1 as stated: every handleRequest call, once it has ended, has made at
\* least 1 and at most 2 generateStoryResponse calls.
C1_Original ==
  (Orchestrating /\ pc \in {"done", "failed"}) => (genCalls >= 1 /\ genCalls <= 2)

\* C2: when both attempts of a handleRequest call are judged non-compliant the
\* call does not throw; it stores one assistant turn, whose content is the
\* text of the second attempt and is not empty, and returns that text.
C2_BothNonCompliant ==
  (/\ Orchestrating /\ Len(verdicts) = 2
   /\ ~verdicts[1].isCompliant /\ ~verdicts[2].isCompliant) =>
    /\ PastLoop
    /\ response = genTexts[2]
    /\ genTexts[2] # ""
    /\ pc # "done" => AssistantTurnsOfRequest = {}
    /\ pc = "done" =>
         /\ outcome = Returned(genTexts[2])
         /\ AssistantTurnsOfRequest = {Len(messages)}
         /\ LastTurn.content = genTexts[2]

\* a returned call whose two attempts were rejected and differ in text
C2_Witness ==
  /\ Orchestrating /\ pc = "done" /\ Len(verdicts) = 2
  /\ ~verdicts[1].isCompliant /\ ~verdicts[2].isCompliant
  /\ genTexts[1] # genTexts[2]
  /\ startLen > 0

\* C3: when attempt 1 is judged non-compliant with feedback F and attempt 2
\* compliant, the history given to attempt 2 is the history given to attempt 1
\* followed by the attempt-1 text as a model turn and one note quoting F, it
\* holds that one note only, nothing is appended after the compliant verdict,
\* and the stored assistant turn and the returned text are the attempt-2 text.
C3_RetryThenCompliant ==
  (/\ Orchestrating /\ Len(verdicts) = 2
   /\ ~verdicts[1].isCompliant /\ verdicts[2].isCompliant) =>
    /\ PastLoop
    /\ genHistories[2] =
         genHistories[1]
           \o <<[role |-> "model", content |-> genTexts[1]],
                [role |-> "user", content |-> CorrectiveNote(verdicts[1].feedback)]>>
    /\ Includes(genHistories[2][Len(genHistories[2])].content, verdicts[1].feedback)
    /\ NoteCount(genHistories[2]) = 1
    /\ chatContext.conversationHistory = genHistories[2]
    /\ pc = "done" =>
         /\ outcome = Returned(genTexts[2])
         /\ LastTurn.role = "assistant"
         /\ LastTurn.content = genTexts[2]

\* a returned call: rejected with the feedback of the scenario, then judged
\* compliant by the reviewer itself, the two texts differing
C3_Witness ==
  /\ Orchestrating /\ pc = "done" /\ Len(verdicts) = 2
  /\ ~verdicts[1].isCompliant /\ verdicts[1].feedback = FeedbackF
  /\ verdicts[2].isCompliant /\ ~verdicts[2].failed
  /\ genTexts[1] # genTexts[2]
  /\ Len(genHistories[1]) > 1

\* C4 as stated: on both paths, when the first generated response is judged
\* non-compliant, no text is stored or returned before a second generation
\* that was given the reviewer's feedback.
C4_RegenerationOnEveryPath ==
  (/\ AssistantTurnsOfRequest # {} \/ outcome.status = "ok"
   /\ Len(verdicts) >= 1 /\ ~verdicts[1].isCompliant) =>
    /\ genCalls >= 2
    /\ \E i \in 1..Len(genHistories[2]) :
         /\ IsCorrectiveNote(genHistories[2][i])
         /\ Includes(genHistories[2][i].content, verdicts[1].feedback)

\* C5 as stated: a request that has stored its two turns has created a memory
\* log exactly when the number of stored turns is a positive multiple of 4,
\* on both paths, the log holding the transcript of the last 4 turns and
\* importance 5.
C5_MemoryLogEveryFourTurns ==
  pc = "done" =>
    LET total == Len(messages)
    IN  /\ logsCreated <= 1
        /\ logsCreated = 1 <=> (total > 0 /\ total % 4 = 0)
        /\ logsCreated = 1 =>
             /\ memoryLogs[Len(memoryLogs)].content =
                  ConversationSnippet(SliceLast(messages, 4))
             /\ memoryLogs[Len(memoryLogs)].importance = 5

\* the user turn stored by the request being served
UserTurn == messages[startLen + 1]
\* the request got past its entry checks, so its user turn is stored
UserTurnStored == Len(messages) > startLen /\ pc # "idle"
\* the location of the last turn of the conversation handed to handleRequest
PreviousLocation ==
  IF Len(history) > 1 /\ history[Len(history) - 1].location \notin {Null, ""}
  THEN history[Len(history) - 1].location
  ELSE "Unknown"

\* C13: handleRequest stores the user turn with the location of the last turn
\* of the conversation it was given, "Unknown" when there is none or it has
\* no location; it stores the assistant turn with the location resolved from
\* the final text (the explicit one, else the model's answer or the previous
\* location); no turn it stores has a null or empty location.
C13_LocationsOfStoredTurns ==
  (Orchestrating /\ UserTurnStored) =>
    /\ UserTurn.role = "user"
    /\ UserTurn.location = PreviousLocation
    /\ lastKnownLocation = PreviousLocation
    /\ \A i \in (startLen + 1)..Len(messages) : messages[i].location \notin {Null, ""}
    /\ pc = "done" =>
         /\ LastTurn.role = "assistant"
         /\ LastTurn.location = newLocation
         /\ IF StartsWithLabel(response) /\ LabelledLocation(response) # ""
            THEN LastTurn.location = LabelledLocation(response) /\ locationCalls = 0
            ELSE /\ locationCalls = 1
                 /\ LastTurn.location \in {"Village Square | Dawn", PreviousLocation}

\* a returned call given a conversation whose last turn has a location, the
\* assistant turn stored with another location
C13_Witness ==
  /\ Orchestrating /\ pc = "done" /\ Len(history) > 1
  /\ UserTurn.location # "Unknown"
  /\ LastTurn.location # UserTurn.location

MissingKeyErrors ==
  {Failed("Gemini API key is missing."),
   Failed("Gemini API key not configured. Please add it in Settings.")}

\* nothing stored, no provider called by the request that has just started
NothingDoneYet ==
  /\ messages' = messages /\ memoryLogs' = memoryLogs
  /\ genCalls' = 0 /\ distillCalls' = 0 /\ locationCalls' = 0
  /\ verdicts' = <<>> /\ retrievedCount' = -1

\* the entry of a request that has no key to use
C14_Step ==
  /\ \A msg \in UserInputs, raw \in {<<>>, messages} :
       (settings.present /\ settings.geminiApiKey = "" /\ OrchStart(msg, raw, "")) =>
         /\ pc' = "failed" /\ outcome' = Failed("Gemini API key is missing.")
         /\ NothingDoneYet
  /\ \A msg \in UserInputs, raw \in {<<>>, messages} :
       (~settings.present /\ OrchStart(msg, raw, "")) =>
         /\ pc' = "failed" /\ outcome' = Failed("Settings not found.")
         /\ NothingDoneYet
  /\ \A content \in UserInputs :
       (settings.geminiApiKey = "" /\ envKey = "" /\ ChatStart(content)) =>
         /\ pc' = "failed"
         /\ outcome' = Failed("Gemini API key not configured. Please add it in Settings.")
         /\ NothingDoneYet

\* a request that ended on the missing-key error had no key and did nothing
C14_State ==
  (pc = "failed" /\ outcome \in MissingKeyErrors) =>
    /\ settings.geminiApiKey = ""
    /\ kind = "chat" => envKey = ""
    /\ Len(messages) = startLen
    /\ genCalls = 0 /\ distillCalls = 0 /\ locationCalls = 0
    /\ verdicts = <<>> /\ retrievedCount = -1

\* C14 (as amended): a handleRequest call with no client key and no stored
\* key, and a POST /api/chat with no stored key and no GEMINI_API_KEY in the
\* environment, fail with the missing-key error (handleRequest with "Settings
\* not found." when there is no settings row) before any provider call and
\* before any turn is stored; storage is unchanged.
C14_MissingKeyFailsFirst == []C14_State /\ [][C14_Step]_vars

\* a handleRequest call that found no key while turns were already stored
C14_Witness ==
  /\ Orchestrating /\ pc = "failed"
  /\ outcome = Failed("Gemini API key is missing.")
  /\ startLen > 0 /\ Len(messages) = startLen

\* C14 as stated: a request served while the settings hold no key (the chat
\* endpoint takes no client key) fails and stores nothing.
C14_Original ==
  (kind = "chat" /\ settings.geminiApiKey = "") =>
    (pc = "failed" /\ Len(messages) = startLen)

\* C15: when the provider call made by filterContext fails, handleRequest
\* throws: it has made no generation call and no review, it stores no
\* assistant turn and returns no text.
C15_DistillationFailureIsFatal ==
  (Orchestrating /\ distillFailed) =>
    /\ pc = "failed"
    /\ outcome.status = "error"
    /\ genCalls = 0 /\ verdicts = <<>> /\ locationCalls = 0
    /\ AssistantTurnsOfRequest = {}

\* a call whose distillation failed on a non-empty retrieved list, after an
\* earlier exchange was stored
C15_Witness ==
  /\ Orchestrating /\ distillFailed /\ pc = "failed"
  /\ retrievedCount > 0 /\ distillCalls = 1
  /\ startLen >= 2

\* C16: a generation call the provider blocks for safety (at prompt or
\* candidate level, in the result or in the raised error) returns the fixed
\* sentinel and does not throw; when every attempt of a handleRequest call is
\* blocked, the call stores one assistant turn holding the sentinel and
\* returns the sentinel.
C16_SafetyBlockGivesSentinel ==
  /\ \A k \in 1..Len(genBlocked) :
       genBlocked[k] =>
         /\ k <= Len(genTexts)
         /\ genTexts[k] = "Generation error due to Safety Issue"
         /\ ~(k = Len(genBlocked) /\ pc = "failed")
  /\ (/\ Orchestrating /\ pc = "done"
      /\ \A k \in 1..Len(genBlocked) : genBlocked[k]) =>
       /\ outcome = Returned("Generation error due to Safety Issue")
       /\ AssistantTurnsOfRequest = {Len(messages)}
       /\ LastTurn.content = "Generation error due to Safety Issue"

\* a returned call whose two attempts were blocked and judged non-compliant
C16_Witness ==
  /\ Orchestrating /\ pc = "done"
  /\ Len(genBlocked) = 2 /\ genBlocked[1] /\ genBlocked[2]
  /\ ~verdicts[1].isCompliant /\ ~verdicts[2].isCompliant

\* C10: a review whose provider call failed is a compliant verdict without
\* feedback; in handleRequest it is the last review of the call, the loop is
\* over, and the text of that attempt is the one stored and returned.
C10_ReviewerFailureAccepts ==
  \A k \in 1..Len(verdicts) :
    verdicts[k].failed =>
      /\ verdicts[k].isCompliant
      /\ verdicts[k].feedback = Null
      /\ Orchestrating =>
           /\ k = Len(verdicts)
           /\ PastLoop
           /\ genCalls = k
           /\ response = genTexts[k]
           /\ pc = "done" =>
                /\ outcome = Returned(genTexts[k])
                /\ AssistantTurnsOfRequest = {Len(messages)}
                /\ LastTurn.content = genTexts[k]

\* a returned call whose first attempt was rejected and whose second review
\* failed, the two texts differing
C10_Witness ==
  /\ Orchestrating /\ pc = "done" /\ Len(verdicts) = 2
  /\ ~verdicts[1].isCompliant /\ verdicts[2].failed
  /\ genTexts[1] # genTexts[2]

\* C19: every stored turn has non-empty content, whatever input the entry
\* point accepted and whatever the provider answered.
C19_StoredContentNonEmpty ==
  \A i \in 1..Len(messages) : messages[i].content # ""

\* the part of C19 that the code keeps: no assistant turn is empty, also when
\* the provider answers with no text
C19_AssistantContentNonEmpty ==
  \A i \in 1..Len(messages) :
    messages[i].role = "assistant" => messages[i].content # ""

\* the turns of the corpus whose content holds the keyword, whatever the case
MatchesOf(keyword) ==
  {i \in 1..Len(qCorpus) : Includes(ToLowerCase(qCorpus[i].content), keyword)}

\* C23: each keyword contributes at most L turns to the keyword stage, L = 15
\* for fewer than 5 distinct keywords and 10 otherwise, and they are its matches
\* of shortest content; the stage holds at most (number of keywords) x L turns
\* and none when no keyword is left.
C23_KeywordCaps ==
  qPc = "returned" =>
    LET keywords == ExtractKeywords(qQuery)
        L == IF Len(keywords) < 5 THEN 15 ELSE 10
        stageIds == TurnIds(KeywordStage)
        matches == [k \in 1..Len(keywords) |-> MatchesOf(keywords[k])]
        length == [i \in 1..Len(qCorpus) |-> Len(qCorpus[i].content)]
        \* the matches of keyword k that are shorter than turn i
        shorter(k, i) == {j \in matches[k] : length[j] < length[i]}
        \* the matches of keyword k that are not longer than turn i
        notLonger(k, i) == {j \in matches[k] \ {i} : length[j] <= length[i]}
    IN  /\ Len(keywords) = 0 => stageIds = {}
        /\ Cardinality(stageIds) <= Len(keywords) * L
        /\ \A i \in 1..Len(qCorpus) :
             /\ qCorpus[i].id \in stageIds =>
                  \E k \in 1..Len(keywords) :
                    i \in matches[k] /\ Cardinality(shorter(k, i)) < L
             /\ \A k \in 1..Len(keywords) :
                  (i \in matches[k] /\ Cardinality(notLonger(k, i)) < L)
                    => qCorpus[i].id \in stageIds

\* five keywords, one of them with more than 10 matches: 10 turns are kept,
\* and a match as long as a kept one is left out
C23_Witness ==
  /\ qPc = "returned"
  /\ qQuery = QueryFive
  /\ Len(ExtractKeywords(qQuery)) = 5
  /\ Cardinality(MatchesOf("sky")) > 10
  /\ Len(KeywordStage) = 10
  /\ \E i, j \in MatchesOf("sky") :
       /\ Len(qCorpus[i].content) = Len(qCorpus[j].content)
       /\ qCorpus[i].id \in TurnIds(KeywordStage)
       /\ qCorpus[j].id \notin TurnIds(KeywordStage)

\* the semantic stage of the call of the state, recomputed from its inputs
SemanticStage == SemanticSearch(qCorpus, qQueryEmbedding, qMessageEmbeddings)

\* C24: the semantic stage returns at most 15 turns, each of a similarity
\* greater than 0.1 (a turn at 0.1 is left out), in the order of non-increasing
\* similarity, and no turn it leaves out is more similar than one it returns.
C24_SemanticStage ==
  (qPc = "returned" /\ ~SomeEmbeddingFails) =>
    LET stage == SemanticStage
        stageIds == TurnIds(stage)
        sim == [i \in 1..Len(qCorpus) |->
                  SimilarityOf(qQueryEmbedding.values, qMessageEmbeddings[i].values)]
        at == [k \in 1..Len(stage) |->
                 CHOOSE i \in 1..Len(qCorpus) : qCorpus[i].id = stage[k].id]
        inside == {i \in 1..Len(qCorpus) : qCorpus[i].id \in stageIds}
    IN  /\ Len(stage) <= 15
        /\ Cardinality(stageIds) = Len(stage)
        /\ \A i \in inside :
             FloatGreater(sim[i], SimilarityThreshold) /\ sim[i] # SimilarityThreshold
        /\ \A k \in 1..(Len(stage) - 1) : ~FloatGreater(sim[at[k + 1]], sim[at[k]])
        /\ \A i \in (1..Len(qCorpus)) \ inside :
             \A j \in inside : ~FloatGreater(sim[i], sim[j])

\* a turn of similarity 0.1 is left out while a turn just above 0.1 and a
\* turn of similarity 1 are returned, the latter first
C24_Witness ==
  /\ qPc = "returned"
  /\ qQueryEmbedding = Embedded(<<1, 0, 0, 0>>)
  /\ qMessageEmbeddings[1] = Embedded(<<1, 9, 3, 3>>)
  /\ SimilarityOf(qQueryEmbedding.values, qMessageEmbeddings[1].values)
       = SimilarityThreshold
  /\ [k \in 1..Len(SemanticStage) |-> SemanticStage[k].id] = <<3, 2>>

(***************************************************************************)
(* The scenario of the test script, under SpecQuery.                       *)
(***************************************************************************)
SkyTurnIds == {1, 2}
ForestTurnIds == {3, 4}
TestQuestionAsked ==
  qQuery = "What color is the sky?" /\ qCorpus \in {TestCorpus, TestCorpusAtQuery}

\* C20: for the question "What color is the sky?" over the four turns of the
\* test, the keyword stage finds both sky turns and no forest turn, and in the
\* returned list both sky turns stand before every forest turn, whatever
\* vectors the embedding provider gives.
C20_SkyTurnsBeforeForestTurns ==
  TestQuestionAsked =>
    LET keywordIds == TurnIds(KeywordStage)
        resultIds == [i \in 1..Len(qResult) |-> qResult[i].id]
    IN  /\ SkyTurnIds \subseteq keywordIds
        /\ keywordIds \cap ForestTurnIds = {}
        /\ qPc = "returned" =>
             /\ SkyTurnIds \subseteq TurnIds(qResult)
             /\ \A i, j \in 1..Len(qResult) :
                  (resultIds[i] \in SkyTurnIds /\ resultIds[j] \in ForestTurnIds)
                    => i < j

\* the forest turns are the most similar ones, the sky turns the least, and
\* the sky turns are returned first all the same
C20_Witness ==
  /\ TestQuestionAsked /\ qPc = "returned"
  /\ qCorpus = TestCorpus
  /\ qMessageEmbeddings[3].values = QueryVector
  /\ qMessageEmbeddings[4].values = <<2, 1, 0>>
  /\ qMessageEmbeddings[1].values = <<-1, -1, 0>>
  /\ qMessageEmbeddings[2].values = <<1, 0, 7>>
  /\ [i \in 1..Len(qResult) |-> qResult[i].id] = <<2, 1, 3, 4>>

(***************************************************************************)
(* Claims about the request sent to the generation provider, under Spec.   *)
(***************************************************************************)
LoreLabel == "--- WORLD LORE & BACKGROUND ---"
PresetLabel == "--- PRESET CHARACTER DETAILS ---"

\* the text of the first turn of attempt i: it carries the system instruction
FirstTurnText(i) == genContents[i][1].text

\* C21: every generation attempt of handleRequest carries the lore section
\* exactly when the settings hold a lore, and the character-preset section
\* exactly when they hold a character preset.
C21_LoreAndPresetSections ==
  Orchestrating =>
    \A i \in 1..Len(genContents) :
      /\ Includes(FirstTurnText(i), PresetLabel) <=> settings.characterPreset # ""
      /\ Includes(FirstTurnText(i), LoreLabel) <=> settings.lore # ""

\* the part of C21 that the code keeps: the character-preset section
C21_PresetSection ==
  Orchestrating =>
    \A i \in 1..Len(genContents) :
      Includes(FirstTurnText(i), PresetLabel) <=> settings.characterPreset # ""


\* the turns of the first generation request that carry the user's message
TurnsWithUserMessage ==
  {i \in 1..Len(genContents[1]) : Includes(genContents[1][i].text, userMessage)}

\* C27: in the conversation the Orchestrator sends on the first generation
\* attempt the current user message occurs exactly once, as the final turn; the
\* first turn has the user role and carries the system instruction; the
\* caller's conversationHistory is as it was before the call.
C27_UserMessageOnceAsFinalTurn ==
  (Orchestrating /\ Len(genContents) >= 1 /\ userMessage # "") =>
    /\ TurnsWithUserMessage = {Len(genContents[1])}
    /\ genContents[1][1].role = "user"
    /\ StartsWith(genContents[1][1].text, SystemInstruction(chatContext))
    /\ \A k \in 1..Len(genHistories) : genHistories[k][1] = genHistories[1][1]

\* the stored turns go user, assistant, user, assistant, ...
TurnsAlternate ==
  /\ Len(messages) % 2 = 0
  /\ \A i \in 1..Len(messages) :
       messages[i].role = IF i % 2 = 1 THEN "user" ELSE "assistant"

\* C28: when no request is in progress after handleRequest calls on a store
\* that was empty, the persisted turns alternate user, assistant and their
\* number is even, also when a call failed in distillation or generation.
C28_TurnsAlternate ==
  (Orchestrating /\ startLen = 0 /\ pc \in {"done", "failed"}) => TurnsAlternate

(***************************************************************************)
(* Claims about concurrent chat requests, under SpecConcurrent.            *)
(***************************************************************************)
\* every request has answered and has nothing left to do
AllChatsDone == \A r \in ChatRequests : chats[r].pc = "done"

\* the requests that created the memory log of the turn count n
ConsolidatedAt(n) == {r \in ChatRequests : chats[r].totalMessages = n}

\* C29: once the concurrent chat requests have completed, every multiple of 4
\* the turn count has passed through has exactly one memory log, and there are
\* no other memory logs.
C29_OneLogPerMultipleOfFour ==
  AllChatsDone =>
    /\ Len(memoryLogs) = Len(messages) \div ConsolidateEvery
    /\ \A k \in 1..(Len(messages) \div ConsolidateEvery) :
         Cardinality(ConsolidatedAt(k * ConsolidateEvery)) = 1

(***************************************************************************)
(* Claims about the course of handleRequest, under SpecFair.               *)
(***************************************************************************)
OrchFinished == Orchestrating /\ pc \in {"done", "failed"}

\* the stage that may follow each stage
StageOrder ==
  { <<"distill", "generate">>, <<"distill", "failed">>,
    <<"generate", "review">>, <<"generate", "failed">>,
    <<"review", "generate">>, <<"review", "locate">>,
    <<"locate", "persist">>, <<"persist", "done">> }

\* the provider calls made so far fit the stage the handler is in
CallsWithinBounds ==
  Orchestrating =>
    /\ distillCalls <= 1 /\ genCalls <= MaxRetries /\ Len(verdicts) <= MaxRetries
    /\ locationCalls <= 1
    /\ pc = "distill" => distillCalls = 0 /\ genCalls = 0
    /\ pc = "generate" => genCalls = Len(verdicts) /\ genCalls < MaxRetries
    /\ pc = "review" => genCalls = Len(verdicts) + 1
    /\ pc \in {"locate", "persist", "done"} =>
         genCalls = Len(verdicts) /\ genCalls >= 1
    /\ pc \in {"distill", "generate", "review"} => locationCalls = 0
    /\ pc = "done" =>
         /\ Len(messages) = startLen + 2
         /\ messages[Len(messages)].role = "assistant"
         /\ outcome = Returned(messages[Len(messages)].content)
    /\ pc = "failed" => outcome.status = "error"

\* a step of the handler moves to a following stage, and only the last step
\* stores the assistant turn
StepInOrder ==
  (Orchestrating /\ Orchestrating' /\ pc \notin {"idle", "done", "failed"}) =>
    /\ <<pc, pc'>> \in StageOrder
    /\ messages' # messages =>
         /\ pc = "persist" /\ pc' = "done"
         /\ messages' = Append(messages, messages'[Len(messages')])
         /\ messages'[Len(messages')].role = "assistant"

\* C30: every handleRequest call ends in Done (one assistant turn stored, the
\* text returned) or in an error; its stages follow the order Retrieve and
\* Distill, Generate, Review, (Generate, Review), Locate, Persist with at most
\* 1 distillation call, 2 generation calls, 2 reviews and 1 location call; the
\* assistant turn is stored only after the last review.
C30_TerminatesInOrder ==
  /\ []CallsWithinBounds
  /\ [][StepInOrder]_vars
  /\ OrchInProgress ~> OrchFinished

\* a request that was reviewed twice has stored its assistant turn
C30_Witness ==
  /\ Orchestrating /\ pc = "done"
  /\ genCalls = MaxRetries /\ Len(verdicts) = MaxRetries
  /\ distillCalls = 1 /\ locationCalls = 1

=========================================================================
